---------------------------- MODULE Spec2Model ----------------------------
(* A model of the EvoLLM dashboard core: the change-detection engine        *)
(* (backend/services/change_detection.py), the checkpoint reader's cache    *)
(* (backend/adapters/openevolve_adapter.py) and the relational reader's     *)
(* retry and connection discipline (backend/adapters/shinka_adapter.py).    *)
(* Times are in tenths of a second.                                         *)
EXTENDS Integers, Sequences, FiniteSets, TLC

\* ------------------------------------------------------------------ bounds
MaxPolls == 3        \* poll-loop iterations explored
MaxStarts == 2       \* start() calls explored (one poll thread per call)
MaxStopPolls == 2    \* poll-loop iterations explored around stop()
StartTime == 20      \* the wall clock at construction (any value >= FS_DEBOUNCE)
MaxElapsed == 10     \* how far the debounce specification lets the clock run
MaxCallbacks == 2    \* on_change registrations explored
MaxWrites == 3       \* changes of the experiment directory explored
MaxReads == 3        \* checkpoint reader operations explored
MaxConcWrites == 1   \* checkpoint saves explored under concurrent readers
MaxConcReads == 3    \* concurrent checkpoint reader operations explored
MaxCalls == 2        \* relational reader calls explored
MaxInfoReads == 2    \* checkpoint reader calls explored next to them
MaxRegs == 3         \* register() calls explored
MaxDiscovers == 2    \* discover_experiments() calls explored per registry
MaxStrategyPolls == 2  \* poll-loop iterations explored over three frameworks
MaxPage == 2         \* pages asked of get_programs
MaxResults == 2      \* max_results asked of search_code
MaxLoop == 4         \* iterations explored of each loop of get_lineage
MaxFireCalls == 3    \* concurrent _fire_event calls explored

\* --------------------------------------------------------- program constants
FS_DEBOUNCE == 10            \* config.FS_DEBOUNCE = 1.0 s
SQLITE_POLL_INTERVAL == 20   \* config.SQLITE_POLL_INTERVAL = 2 s

Exps == {"se1", "oe1"}
\* xe1 is registered under a framework name no descriptor carries.
Framework(e) ==
  IF e = "se1" THEN "shinkaevolve"
  ELSE IF e = "oe1" THEN "openevolve"
  ELSE "unknown_framework"
Mtimes == {0, 100, 150}          \* 0: the store is missing
PollThreads == 1..MaxStarts
CallbackKinds == {"sync", "raises", "async"}
FileKinds == {"json", "jsonl", "other"}

VARIABLES
  \* ChangeDetectionEngine fields
  callbacks, loopSet, running, observer, watchedPaths, experimentMeta,
  lastMtimes, debounceTimers,
  \* environment of the engine
  hasWatchdog, scheduled, now, diskMtime,
  \* threads: the poll loops, the caller of start/stop, the observer thread
  pollPc, pollTodo, mainPc, obsPc, obsEvent,
  \* history of the engine
  iterations, polls, fireLog, lastAccept, stale, firedStale,
  \* what one exploration allows: poll iterations and start() calls
  pollBudget, startBudget,
  \* OpenEvolveAdapter fields
  checkpointDir, programsCache, metadataCache, traceCache, cacheMtime,
  \* the experiment directory on disk
  disk, writes,
  \* threads inside the checkpoint reader's public methods
  rdPc, rdOp, rdCp, rdMtime, rdLoad, rdUse,
  \* history of the checkpoint reader
  nreads, loads, prevRead, lastRead, mtimeChanged,
  \* the store file of the relational reader and its open connections
  dbConn, dbLeaked,
  \* the thread inside a capability method wrapped by _db_retry
  dbPc, dbMethod, dbAttempt, delay, dbStmt, dbErrors, dbSlept,
  \* ProjectRegistry._configs, in dict order
  configs,
  \* history of the registry: the names register() was called with, the last
  \* detect_framework() call, the discover_experiments() results
  regLog, lastDetect, discovered,
  \* ExperimentManager._adapters and _experiments
  adapters, experiments,
  \* history of the manager: the last scan() and the last list_experiments()
  lastScan, lastList,
  \* the program store the query methods read: which reader reads it, its
  \* programs in storage order, metadata.json's best_program_id
  reader, programs, bestId,
  \* history of the query methods: the last call and its result
  lastQuery,
  \* the thread inside get_lineage: its position, its argument, the best id
  \* it found, and the locals nodes' children, root_ids, curr, best_path,
  \* stack, subtree_ids; the iterations of the current loop
  lnPc, lnArg, lnBest, lnChildren, lnRoots, lnCurr, lnPath, lnStack, lnSub,
  lnSteps,
  \* history of the relational reader
  ncalls, lastCall,
  \* threads inside _fire_event: position, the locals now and last; the
  \* calls made so far and the times of the delivered events
  fePc, feNow, feLast, feCalls, delivered

engineVars == <<callbacks, loopSet, running, observer, watchedPaths,
                experimentMeta, lastMtimes, debounceTimers, hasWatchdog,
                scheduled, now, diskMtime, pollPc, pollTodo, mainPc,
                obsPc, obsEvent, iterations, polls, fireLog, lastAccept,
                stale, firedStale, pollBudget, startBudget>>

cacheFields == <<checkpointDir, programsCache, metadataCache, traceCache,
                 cacheMtime>>
diskVars == <<disk, writes>>
readerVars == <<rdPc, rdOp, rdCp, rdMtime, rdLoad, rdUse>>
readLog == <<nreads, loads, prevRead, lastRead, mtimeChanged>>
cacheVars == <<cacheFields, diskVars, readerVars, readLog>>

dbVars == <<dbConn, dbLeaked, dbPc, dbMethod, dbAttempt, delay,
           dbStmt, dbErrors, dbSlept, ncalls, lastCall>>

regVars == <<configs, regLog, lastDetect, discovered>>

\* everything outside the engine and the two readers
mgrVars == <<adapters, experiments, lastScan, lastList>>

storeVars == <<reader, programs, bestId>>
lineageVars == <<lnPc, lnArg, lnBest, lnChildren, lnRoots, lnCurr, lnPath,
                 lnStack, lnSub, lnSteps>>
queryVars == <<storeVars, lastQuery, lineageVars>>

fireThreadVars == <<fePc, feNow, feLast, feCalls, delivered>>

restVars == <<regVars, mgrVars, queryVars, fireThreadVars>>

vars == <<engineVars, cacheVars, dbVars, restVars>>

NoFire == [key |-> "none", accepted |-> FALSE, missed |-> {}, gap |-> -1]

EngineInit ==
  /\ callbacks = <<>>
  /\ loopSet = FALSE
  /\ running = FALSE
  /\ observer = "none"
  /\ watchedPaths = {}
  /\ experimentMeta = <<>>
  /\ lastMtimes = [e \in Exps |-> 0]
  /\ debounceTimers = [e \in Exps |-> 0]
  /\ scheduled = {}
  /\ now = StartTime
  /\ pollPc = [t \in PollThreads |-> "unstarted"]
  /\ pollTodo = [t \in PollThreads |-> <<>>]
  /\ mainPc = "idle"
  /\ obsPc = "idle"
  /\ obsEvent = <<>>
  /\ iterations = 0
  /\ polls = <<>>
  /\ fireLog = NoFire
  /\ lastAccept = [e \in Exps |-> -1]
  /\ stale = [t \in PollThreads |-> FALSE]
  /\ firedStale = FALSE

\* ------------------------------------------- the checkpoint reader's state
Checkpoints == {"cpA", "cpB"}
Readers == {"r1", "r2"}                \* threads calling the reader
Ops == {"get_metrics", "get_experiment_info"}

\* A cache field holds what one load put there: the version of the content
\* it read (0: empty) and which load it was (0: it was emptied, not loaded).
None == [ver |-> -1, load |-> 0]       \* the field was never assigned
Unused == [ver |-> -2, load |-> 0]     \* the operation did not read the field

\* `x or {}`: a field that is None reads as empty.
Content(c) == IF c.ver < 0 THEN 0 ELSE c.ver

\* A checkpoint directory: the mtime of its metadata.json, the version of its
\* content, and whether it holds a program file that is not a JSON object.
Absent == [present |-> FALSE, mtime |-> 0, ver |-> 0, bad |-> FALSE]

\* What one operation has seen so far: did the metadata mtime change since
\* the previous operation, did it call _load_checkpoint, the load that wrote
\* the mtime marker it relied on, and the cache fields as it read them.
NoUse == [changed |-> FALSE, parsed |-> FALSE, marker |-> 0,
          meta |-> Unused, progs |-> Unused, trace |-> Unused]

NoRead == [op |-> "none", out |-> "none", use |-> NoUse, disk |-> 0,
           status |-> "none", lastMod |-> 0, latest |-> "none",
           dir |-> "none"]

\* OpenEvolveAdapter.__init__
AdapterInit ==
  /\ checkpointDir = "none"
  /\ programsCache = None
  /\ metadataCache = None
  /\ traceCache = None
  /\ cacheMtime = [m |-> 0, load |-> 0]
  /\ rdPc = [r \in Readers |-> "idle"]
  /\ rdOp = [r \in Readers |-> "none"]
  /\ rdCp = [r \in Readers |-> "none"]
  /\ rdMtime = [r \in Readers |-> 0]
  /\ rdLoad = [r \in Readers |-> 0]
  /\ rdUse = [r \in Readers |-> NoUse]
  /\ nreads = 0
  /\ loads = 0
  /\ prevRead = NoRead
  /\ lastRead = NoRead
  /\ mtimeChanged = FALSE

\* An experiment directory without any checkpoint_* folder.
NoCheckpoints ==
  /\ disk = [cp \in Checkpoints |-> Absent]
  /\ writes = 0

\* ------------------------------------------- the relational reader's state
max_retries == 5          \* _db_retry: max_retries = 5
InitialDelay == 1         \* _db_retry: delay = 0.1

Methods == {"get_experiment_info", "get_programs"}

\* The statements of a capability method's body: a query whose storage error
\* propagates, or one inside a try block that swallows every exception (the
\* metadata_store lookup; _get_archive_set).
Body(m) ==
  IF m = "get_experiment_info"
  THEN <<"query", "query", "query", "query", "guarded">>
  ELSE <<"query", "query", "guarded">>

NoCall == [method |-> "none", out |-> "none", exists |-> FALSE,
           attempts |-> 0, slept |-> <<>>, errors |-> 0, open |-> 0,
           status |-> "none", lastMod |-> 0]

\* ShinkaAdapter.__init__: nothing is opened; no call is in progress.
ShinkaInit ==
  /\ dbConn = 0
  /\ dbLeaked = 0
  /\ dbPc = "idle"
  /\ dbMethod = "none"
  /\ dbAttempt = 0
  /\ delay = 0
  /\ dbStmt = 0
  /\ dbErrors = 0
  /\ dbSlept = <<>>
  /\ ncalls = 0
  /\ lastCall = NoCall

\* ------------------------------------------------- the registry's state
\* The directory tree discover_experiments() runs over: two checkpoints of
\* one experiment (m1, m2 under e1), a checkpoint reached through e2, a
\* symbolic link to e1, and a checkpoint of a second experiment (m4 under
\* e3).  A glob pattern yields its matches in a fixed order.
Names == {"fa", "fb"}
Patterns == {"pa", "pb"}
Matches == {"m1", "m2", "m3", "m4"}
ExperimentPaths == {"e1", "e2", "e3"}

Glob(pattern) ==
  IF pattern = "pa" THEN <<"m1", "m2", "m4">> ELSE <<"m3", "m1">>

\* os.path.realpath: e2 is a link to e1, every other path is its own.
RealPath(p) == IF p = "e2" THEN "e1" ELSE p

\* A descriptor's resolver maps a match to its experiment root; the one of
\* kind "raising" raises on m2.
Resolver(kind, m) ==
  IF kind = "raising" /\ m = "m2" THEN "raise"
  ELSE IF m \in {"m1", "m2"} THEN "e1"
  ELSE IF m = "m3" THEN "e2"
  ELSE "e3"

\* A descriptor's detect predicate: "all" accepts every path, "none"
\* rejects every path, "raises" raises on e1 and on m1 and accepts the rest.
DetectKinds == {"all", "none", "raises"}

Predicate(kind, p) ==
  IF kind = "all" THEN "yes"
  ELSE IF kind = "none" THEN "no"
  ELSE IF p \in {"e1", "m1"} THEN "raise"
  ELSE "yes"

\* The ProjectConfig values explored: glob_patterns and resolve_experiment_path
\* come in three shapes.
Shapes == {[glob_patterns |-> <<"pa">>, resolver |-> "none"],
           [glob_patterns |-> <<"pa", "pb">>, resolver |-> "root"],
           [glob_patterns |-> <<"pb", "pa">>, resolver |-> "raising"]}

ProjectConfig ==
  {[name |-> n, detect |-> d, glob_patterns |-> sh.glob_patterns,
    resolver |-> sh.resolver] : n \in Names, d \in DetectKinds, sh \in Shapes}

NoDetect == [path |-> "none", out |-> "none"]

\* ProjectRegistry.__init__
RegistryInit ==
  /\ configs = <<>>
  /\ regLog = <<>>
  /\ lastDetect = NoDetect
  /\ discovered = <<>>

\* ------------------------------------------------- the manager's state
\* The experiment roots a scan can find: two checkpoint trees whose
\* directories have the same name (a/run, b/run) and one store file (c/db.sqlite).
Roots == {"x1", "x2", "x3"}
FrameworkOf(x) == IF x = "x3" THEN "shinkaevolve" ELSE "openevolve"

\* _make_id: a prefix and the last component of the path.
MakeId(x) == IF x = "x3" THEN "se_db" ELSE "oe_run"
Ids == {MakeId(x) : x \in Roots}

\* What get_experiment_info() of a root's reader does during one call.
InfoOutcomes == {"ok", "raises"}

NoScan == [called |-> FALSE, found |-> [x \in Roots |-> "absent"],
           before |-> [i \in Ids |-> "none"], raised |-> FALSE]
NoList == [called |-> FALSE, items |-> {}]

\* ExperimentManager.__init__
ManagerInit ==
  /\ adapters = [i \in Ids |-> "none"]
  /\ experiments = [i \in Ids |-> "none"]
  /\ lastScan = NoScan
  /\ lastList = NoList

\* ------------------------------------------------- the program store
\* A stored program: a file of the checkpoint's programs directory or a row
\* of the programs table.  parent_id "None" is null; archived tells whether
\* the archive (metadata.json's list, or the archive table) names it;
\* correct and children_count are columns of the table only.
ProgramIds == {"p1", "p2", "p3"}
StoreReaders == {"openevolve", "shinkaevolve"}

Stored(id, parent, gen, isl, sc, arch, corr, cc) ==
  [id |-> id, parent_id |-> parent, generation |-> gen, island_id |-> isl,
   score |-> sc, archived |-> arch, correct |-> corr, children_count |-> cc]

NoQuery == [op |-> "none"]

\* No thread is inside get_lineage.
LineageIdle ==
  /\ lnPc = "idle"
  /\ lnArg = "None"
  /\ lnBest = "None"
  /\ lnChildren = [id \in ProgramIds |-> <<>>]
  /\ lnRoots = <<>>
  /\ lnCurr = "None"
  /\ lnPath = <<>>
  /\ lnStack = <<>>
  /\ lnSub = {}
  /\ lnSteps = 0

\* No store is read outside the specifications of the query methods.
NoStore ==
  /\ reader = "openevolve"
  /\ programs = <<>>
  /\ bestId = "None"
  /\ lastQuery = NoQuery
  /\ LineageIdle

\* No thread is inside _fire_event.
FireThreads == {"t1", "t2"}

FireThreadsIdle ==
  /\ fePc = [t \in FireThreads |-> "idle"]
  /\ feNow = [t \in FireThreads |-> 0]
  /\ feLast = [t \in FireThreads |-> 0]
  /\ feCalls = 0
  /\ delivered = <<>>

RestInit ==
  /\ RegistryInit
  /\ ManagerInit
  /\ NoStore
  /\ FireThreadsIdle

\* ------------------------------------------------------------ _fire_event
\* The callbacks the dispatch loop of _fire_event invokes: a synchronous one
\* is called (an exception it raises is caught and logged), an asynchronous
\* one is scheduled on the loop, and only when a loop was set.
Invoked(cbs, loop) ==
  {i \in 1..Len(cbs) : cbs[i] = "async" => loop}

\* The debounce key of an event: f"{experiment_id}:{type}"; every event the
\* engine builds has type NEW_PROGRAM.
Key(e) == e

\* The debounce test of _fire_event: last defaults to 0 for an unseen key.
Debounced(t, last) == t - last < FS_DEBOUNCE

\* A _fire_event that records the time of every event, suppressed or not.
TimerAfterRestart(suppressed, t, last) == t

\* The timer of a key after _fire_event: only an accepted event restarts it.
TimerAfter(suppressed, t, last) == IF suppressed THEN last ELSE t

\* _fire_event(event) for an event of experiment e: the debounce test, the
\* timer, and the dispatch to Invoked(callbacks, loopSet) when accepted.
FireEvent(e) ==
  LET last == debounceTimers[Key(e)]
  IN debounceTimers' =
       [debounceTimers EXCEPT
          ![Key(e)] = TimerAfter(Debounced(now, last), now, last)]

\* The history of _fire_event calls: the outcome of the call being made (was
\* the event accepted, which registered callbacks were not invoked, how long
\* after the last accepted event of the experiment it came), and when an
\* event of each experiment was last accepted.
RecordFire(e) ==
  LET suppressed == Debounced(now, debounceTimers[Key(e)])
      gap == IF lastAccept[e] < 0 THEN -1 ELSE now - lastAccept[e]
      missed == (1..Len(callbacks)) \ Invoked(callbacks, loopSet)
  IN /\ fireLog' = [key |-> e, accepted |-> ~suppressed,
                    missed |-> IF suppressed THEN {} ELSE missed,
                    gap |-> gap]
     /\ lastAccept' = IF suppressed THEN lastAccept
                      ELSE [lastAccept EXCEPT ![e] = now]

NoRecord == UNCHANGED <<fireLog, lastAccept>>

NoFireEvent == UNCHANGED <<debounceTimers, fireLog, lastAccept>>

\* handle_fs_event(experiment_id, file_path): only .json / .jsonl files count.
AcceptsFile(f) == f \in {"json", "jsonl"}

HandleFs(e, f) ==
  IF AcceptsFile(f) THEN FireEvent(e) ELSE UNCHANGED debounceTimers

\* -------------------------------------------- subscribers, clock, callers
pollState == <<running, observer, watchedPaths, experimentMeta, lastMtimes,
               hasWatchdog, scheduled, diskMtime, pollPc, pollTodo, mainPc,
               obsPc, obsEvent, iterations, polls, stale, firedStale,
               pollBudget, startBudget, cacheVars,
               dbVars, restVars>>

\* on_change(callback)
OnChange(k) ==
  /\ Len(callbacks) < MaxCallbacks
  /\ callbacks' = Append(callbacks, k)
  /\ NoFireEvent
  /\ UNCHANGED <<loopSet, now, pollState>>

\* set_loop(loop)
SetLoop ==
  /\ ~loopSet
  /\ loopSet' = TRUE
  /\ NoFireEvent
  /\ UNCHANGED <<callbacks, now, pollState>>

\* The wall clock read by time.time() advances.
Tick(d) ==
  /\ now + d <= StartTime + MaxElapsed
  /\ now' = now + d
  /\ NoFireEvent
  /\ UNCHANGED <<callbacks, loopSet, pollState>>

\* A caller hands an event to _fire_event directly.
DirectFire(e) ==
  /\ FireEvent(e)
  /\ RecordFire(e)
  /\ UNCHANGED <<callbacks, loopSet, now, pollState>>

\* A caller (the watchdog handler) calls handle_fs_event.
HandleFsEvent(e, f) ==
  /\ HandleFs(e, f)
  /\ IF AcceptsFile(f) THEN RecordFire(e) ELSE NoRecord
  /\ UNCHANGED <<callbacks, loopSet, now, pollState>>

FireNext ==
  \/ \E k \in CallbackKinds : OnChange(k)
  \/ SetLoop
  \/ \E d \in {1, FS_DEBOUNCE - 1} : Tick(d)
  \/ \E e \in Exps : DirectFire(e)
  \/ \E e \in Exps, f \in FileKinds : HandleFsEvent(e, f)

\* The engine as constructed, on a host with the watch backend installed.
FireInit ==
  /\ EngineInit
  /\ pollBudget = 0
  /\ startBudget = 0
  /\ hasWatchdog = TRUE
  /\ diskMtime = [e \in {"se1"} |-> 0]
  /\ AdapterInit
  /\ NoCheckpoints
  /\ ShinkaInit
  /\ RestInit

SpecFire == FireInit /\ [][FireNext]_vars


\* ------------------------------------------------------------ the poll loop
pollFrame == <<callbacks, loopSet, pollBudget, startBudget, cacheVars,
               dbVars, restVars>>

\* os.path.getmtime(path) if os.path.exists(path) else 0
ObservedMtime(e) == diskMtime[e]

\* _last_mtimes[eid] after one poll that saw mtime with prev stored.
LastSeenAfter(mtime, prev) == IF mtime > prev THEN mtime ELSE prev

\* A poll loop without the "skip first detection" test.
PollFiresNoSkip(mtime, prev) == mtime > prev

\* Whether one poll hands an event to _fire_event ("skip first detection").
PollFires(mtime, prev) == mtime > prev /\ prev > 0

\* A poll loop that never looks at the running flag.
LoopContinuesAlways(r) == TRUE

\* The test of the poll loop's while statement.
LoopContinues(r) == r

\* The writer of the store touches (or removes, or restores) the file.
Touch(e, m) ==
  /\ m # diskMtime[e]
  /\ diskMtime' = [diskMtime EXCEPT ![e] = m]
  /\ NoFireEvent
  /\ UNCHANGED <<pollFrame, running, observer, watchedPaths, experimentMeta,
                 lastMtimes, hasWatchdog, scheduled, now, pollPc, pollTodo,
                 mainPc, obsPc, obsEvent, iterations, polls, stale,
                 firedStale>>

\* while self._running: the loop ends, or takes a copy of the experiments.
PollCheck(t) ==
  /\ pollPc[t] = "check"
  /\ IF LoopContinues(running)
     THEN /\ iterations < pollBudget
          /\ iterations' = iterations + 1
          /\ pollPc' = [pollPc EXCEPT ![t] = "iter"]
          /\ pollTodo' = [pollTodo EXCEPT ![t] = experimentMeta]
     ELSE /\ pollPc' = [pollPc EXCEPT ![t] = "done"]
          /\ UNCHANGED <<iterations, pollTodo>>
  /\ NoFireEvent
  /\ UNCHANGED <<pollFrame, running, observer, watchedPaths, experimentMeta,
                 lastMtimes, hasWatchdog, scheduled, now, diskMtime, mainPc,
                 obsPc, obsEvent, polls, stale, firedStale>>

\* The body of the for loop for the next experiment of the copy.
PollOne(t) ==
  /\ pollPc[t] = "iter"
  /\ pollTodo[t] # <<>>
  /\ LET e == Head(pollTodo[t])
         mtime == ObservedMtime(e)
         prev == lastMtimes[e]
     IN /\ pollTodo' = [pollTodo EXCEPT ![t] = Tail(pollTodo[t])]
        /\ IF Framework(e) # "shinkaevolve"
           THEN /\ NoFireEvent
                /\ UNCHANGED <<lastMtimes, polls, firedStale>>
           ELSE /\ lastMtimes' =
                     [lastMtimes EXCEPT ![e] = LastSeenAfter(mtime, prev)]
                /\ polls' = Append(polls,
                     [m |-> mtime, fired |-> PollFires(mtime, prev)])
                /\ firedStale' =
                     (firedStale \/ (PollFires(mtime, prev) /\ stale[t]))
                /\ IF PollFires(mtime, prev) THEN FireEvent(e)
                                             ELSE UNCHANGED debounceTimers
                /\ NoRecord
  /\ UNCHANGED <<pollFrame, running, observer, watchedPaths, experimentMeta,
                 hasWatchdog, scheduled, now, diskMtime, pollPc, mainPc,
                 obsPc, obsEvent, iterations, stale>>

\* os.path.getmtime raises (the file vanished after os.path.exists): the
\* exception is caught and logged, and the experiment is skipped this round.
PollError(t) ==
  /\ pollPc[t] = "iter"
  /\ pollTodo[t] # <<>>
  /\ Framework(Head(pollTodo[t])) = "shinkaevolve"
  /\ pollTodo' = [pollTodo EXCEPT ![t] = Tail(pollTodo[t])]
  /\ NoFireEvent
  /\ UNCHANGED <<pollFrame, running, observer, watchedPaths, experimentMeta,
                 lastMtimes, hasWatchdog, scheduled, now, diskMtime, pollPc,
                 mainPc, obsPc, obsEvent, iterations, polls, stale,
                 firedStale>>

\* The for loop is over: time.sleep(SQLITE_POLL_INTERVAL) begins.
PollEndIter(t) ==
  /\ pollPc[t] = "iter"
  /\ pollTodo[t] = <<>>
  /\ pollPc' = [pollPc EXCEPT ![t] = "sleep"]
  /\ stale' = [stale EXCEPT ![t] = ~running]
  /\ NoFireEvent
  /\ UNCHANGED <<pollFrame, running, observer, watchedPaths, experimentMeta,
                 lastMtimes, hasWatchdog, scheduled, now, diskMtime, pollTodo,
                 mainPc, obsPc, obsEvent, iterations, polls, firedStale>>

\* time.sleep returns: the clock has advanced by the poll interval.
PollWake(t) ==
  /\ pollPc[t] = "sleep"
  /\ pollPc' = [pollPc EXCEPT ![t] = "check"]
  /\ now' = now + SQLITE_POLL_INTERVAL
  /\ NoFireEvent
  /\ UNCHANGED <<pollFrame, running, observer, watchedPaths, experimentMeta,
                 lastMtimes, hasWatchdog, scheduled, diskMtime, pollTodo,
                 mainPc, obsPc, obsEvent, iterations, polls, stale,
                 firedStale>>

\* ------------------------------------------- register, start, stop, observer
Registered(e) == \E i \in 1..Len(experimentMeta) : experimentMeta[i] = e

\* _setup_watchdog reaches observer.schedule only with the watch backend
\* installed, an observer created and a path not watched yet.
SetsUpWatch(e) ==
  /\ Framework(e) = "openevolve"
  /\ hasWatchdog
  /\ observer # "none"
  /\ e \notin watchedPaths

\* register_experiment(experiment_id, path, framework); scheduleOk tells
\* whether observer.schedule succeeds (it raises for a path it cannot watch).
RegisterExperiment(e, scheduleOk) ==
  /\ mainPc = "idle"
  /\ experimentMeta' =
       IF Registered(e) THEN experimentMeta ELSE Append(experimentMeta, e)
  /\ IF SetsUpWatch(e)
     THEN /\ watchedPaths' = watchedPaths \cup {e}
          /\ scheduled' = IF scheduleOk THEN scheduled \cup {e} ELSE scheduled
     ELSE UNCHANGED <<watchedPaths, scheduled>>
  /\ NoFireEvent
  /\ UNCHANGED <<pollFrame, running, observer, lastMtimes, hasWatchdog, now,
                 diskMtime, pollPc, pollTodo, mainPc, obsPc, obsEvent,
                 iterations, polls, stale, firedStale>>

\* start(): a new poll thread, and an observer when there is none yet.
Start ==
  /\ mainPc = "idle"
  /\ \E t \in PollThreads :
       /\ pollPc[t] = "unstarted"
       /\ t <= startBudget
       /\ \A u \in PollThreads : u < t => pollPc[u] # "unstarted"
       /\ pollPc' = [pollPc EXCEPT ![t] = "check"]
  /\ running' = TRUE
  /\ observer' = IF hasWatchdog /\ observer = "none" THEN "started"
                 ELSE observer
  /\ stale' = [t \in PollThreads |-> FALSE]
  /\ NoFireEvent
  /\ UNCHANGED <<pollFrame, watchedPaths, experimentMeta, lastMtimes,
                 hasWatchdog, scheduled, now, diskMtime, pollTodo, mainPc,
                 obsPc, obsEvent, iterations, polls, firedStale>>

\* stop(): clears the flag, then stops the observer and begins to join it.
Stop ==
  /\ mainPc = "idle"
  /\ running' = FALSE
  /\ stale' = [t \in PollThreads |-> pollPc[t] # "iter"]
  /\ IF observer # "none"
     THEN /\ observer' = "stopped"
          /\ mainPc' = "joining"
     ELSE UNCHANGED <<observer, mainPc>>
  /\ NoFireEvent
  /\ UNCHANGED <<pollFrame, watchedPaths, experimentMeta, lastMtimes,
                 hasWatchdog, scheduled, now, diskMtime, pollPc, pollTodo,
                 obsPc, obsEvent, iterations, polls, firedStale>>

\* observer.join() returns once the observer thread has exited.
StopJoin ==
  /\ mainPc = "joining"
  /\ obsPc = "exited"
  /\ mainPc' = "idle"
  /\ NoFireEvent
  /\ UNCHANGED <<pollFrame, running, observer, watchedPaths, experimentMeta,
                 lastMtimes, hasWatchdog, scheduled, now, diskMtime, pollPc,
                 pollTodo, obsPc, obsEvent, iterations, polls, stale,
                 firedStale>>

\* The observer thread picks up a filesystem event under a watched directory.
FsDispatch(e, f) ==
  /\ observer = "started"
  /\ obsPc = "idle"
  /\ e \in scheduled
  /\ obsPc' = "dispatch"
  /\ obsEvent' = <<e, f>>
  /\ NoFireEvent
  /\ UNCHANGED <<pollFrame, running, observer, watchedPaths, experimentMeta,
                 lastMtimes, hasWatchdog, scheduled, now, diskMtime, pollPc,
                 pollTodo, mainPc, iterations, polls, stale, firedStale>>

\* _WatchdogHandler.on_modified / on_created: directories are ignored, a file
\* goes to handle_fs_event.
FsHandle ==
  /\ obsPc = "dispatch"
  /\ IF obsEvent[2] = "dir" THEN UNCHANGED debounceTimers
     ELSE HandleFs(obsEvent[1], obsEvent[2])
  /\ NoRecord
  /\ obsPc' = "idle"
  /\ obsEvent' = <<>>
  /\ UNCHANGED <<pollFrame, running, observer, watchedPaths, experimentMeta,
                 lastMtimes, hasWatchdog, scheduled, now, diskMtime, pollPc,
                 pollTodo, mainPc, iterations, polls, stale, firedStale>>

\* The stopped observer thread exits once it is not inside a handler.
ObsExit ==
  /\ observer = "stopped"
  /\ obsPc = "idle"
  /\ obsPc' = "exited"
  /\ NoFireEvent
  /\ UNCHANGED <<pollFrame, running, observer, watchedPaths, experimentMeta,
                 lastMtimes, hasWatchdog, scheduled, now, diskMtime, pollPc,
                 pollTodo, mainPc, obsEvent, iterations, polls, stale,
                 firedStale>>

PollThreadStep(t) ==
  \/ PollCheck(t)
  \/ PollOne(t)
  \/ PollError(t)
  \/ PollEndIter(t)
  \/ PollWake(t)

ObserverStep ==
  \/ \E e \in Exps, f \in {"json", "dir"} : FsDispatch(e, f)
  \/ FsHandle
  \/ ObsExit

\* The poll loop on a host without the watch backend ("falling back to
\* polling for all experiments"): no observer is ever created.
PollNext ==
  \/ \E e \in {"se1"}, m \in Mtimes : Touch(e, m)
  \/ \E e \in Exps, ok \in BOOLEAN : RegisterExperiment(e, ok)
  \/ Start
  \/ Stop
  \/ \E t \in PollThreads : PollThreadStep(t)

\* The engine as constructed; the polled store has any mtime (0: it does
\* not exist yet).
PollInit ==
  /\ EngineInit
  /\ pollBudget = MaxPolls
  /\ startBudget = MaxStarts
  /\ hasWatchdog = FALSE
  /\ diskMtime \in [{"se1"} -> Mtimes]
  /\ AdapterInit
  /\ NoCheckpoints
  /\ ShinkaInit
  /\ RestInit

Spec == PollInit /\ [][PollNext]_vars

\* One life of the whole engine, from start() to stop(), with or without the
\* watch backend; the writer of the polled store only appends, so its mtime
\* only grows.
StopNext ==
  \/ \E e \in {"se1"}, m \in Mtimes : m > diskMtime[e] /\ Touch(e, m)
  \/ \E e \in Exps, ok \in BOOLEAN : RegisterExperiment(e, ok)
  \/ Start
  \/ Stop
  \/ StopJoin
  \/ \E t \in PollThreads : PollThreadStep(t)
  \/ ObserverStep

StopInit ==
  /\ EngineInit
  /\ pollBudget = MaxStopPolls
  /\ startBudget = 1
  /\ hasWatchdog \in BOOLEAN
  /\ diskMtime = [e \in {"se1"} |-> 100]
  /\ AdapterInit
  /\ NoCheckpoints
  /\ ShinkaInit
  /\ RestInit

SpecStop == StopInit /\ [][StopNext]_vars

\* Threads are scheduled fairly: the poll threads take their next steps (they
\* take finitely many), and so do the observer thread and the caller blocked
\* in join (after stop() these run one after the other).
SpecStopFair ==
  /\ SpecStop
  /\ WF_vars(\E t \in PollThreads : PollThreadStep(t))
  /\ WF_vars(FsHandle \/ ObsExit \/ StopJoin)

\* ------------------------------------------- the experiment directory on disk
cacheFrame == <<engineVars, dbVars, restVars>>

Present(d) == {cp \in Checkpoints : d[cp].present}

\* _find_latest_checkpoint on a directory d: the checkpoint folder modified
\* last (a save writes metadata.json last, so the folders are ordered as
\* their metadata files are), or none.
LatestOf(d) ==
  IF Present(d) = {} THEN "none"
  ELSE CHOOSE cp \in Present(d) :
         \A o \in Present(d) : d[o].mtime <= d[cp].mtime

FindLatestCheckpoint == LatestOf(disk)

\* The metadata mtime of the latest checkpoint of d (-1: no checkpoint).
LatestMtimeOf(d) == IF LatestOf(d) = "none" THEN -1 ELSE d[LatestOf(d)].mtime

\* The content of the latest checkpoint (0: nothing to read).
DiskContent ==
  IF FindLatestCheckpoint = "none" THEN 0 ELSE disk[FindLatestCheckpoint].ver

NoReaderInside == \A r \in Readers : rdPc[r] = "idle"

\* The directory becomes d.
DiskBecomes(d) ==
  /\ writes < MaxWrites
  /\ writes' = writes + 1
  /\ disk' = d
  /\ mtimeChanged' = (mtimeChanged \/ LatestMtimeOf(d) # LatestMtimeOf(disk))
  /\ UNCHANGED <<cacheFrame, cacheFields, readerVars, nreads, loads,
                 prevRead, lastRead>>

\* The experiment saves checkpoint cp: new content, new metadata.json.
SaveCheckpoint(cp, bad) ==
  DiskBecomes([disk EXCEPT ![cp] = [present |-> TRUE, mtime |-> writes + 1,
                                    ver |-> writes + 1, bad |-> bad]])

\* A program file appears in the latest checkpoint; metadata.json is not
\* touched.
AddProgram(bad) ==
  /\ FindLatestCheckpoint # "none"
  /\ DiskBecomes([disk EXCEPT ![FindLatestCheckpoint] =
                    [@ EXCEPT !.ver = writes + 1, !.bad = @ \/ bad]])

\* A checkpoint folder is moved out of the experiment directory ...
MoveAway(cp) ==
  /\ disk[cp].present
  /\ DiskBecomes([disk EXCEPT ![cp].present = FALSE])

\* ... and moved back as it was (mv keeps the mtimes).
MoveBack(cp) ==
  /\ ~disk[cp].present
  /\ disk[cp].ver > 0
  /\ DiskBecomes([disk EXCEPT ![cp].present = TRUE])

\* --------------------------------------- _ensure_cache and _load_checkpoint
\* What a load reads in checkpoint folder cp (os.path.exists is tested first).
DiskVer(cp) == IF disk[cp].present THEN disk[cp].ver ELSE 0

\* json.load of a program file that holds no JSON object: prog.get raises
\* AttributeError, which `except (json.JSONDecodeError, IOError)` lets pass.
LoadRaises(cp) == disk[cp].present /\ disk[cp].bad

\* The test of _ensure_cache that skips the load.
CacheHit(mtime) == mtime = cacheMtime.m /\ programsCache # None

\* self.get_last_modified()
GetLastModified ==
  IF FindLatestCheckpoint = "none" THEN 0 ELSE disk[FindLatestCheckpoint].mtime

\* self._infer_status(): UNKNOWN without a metadata mtime, else by its age.
InferStatus == IF GetLastModified = 0 THEN "UNKNOWN" ELSE "BY_AGE"

Goto(r, pc) == rdPc' = [rdPc EXCEPT ![r] = pc]

\* A public method returns or raises: the operation joins the history, with
\* the folder that is the latest one on disk and the folder the cache was
\* last loaded from (self._checkpoint_dir).
Finish(r, out, use, status, lastMod) ==
  /\ prevRead' = lastRead
  /\ lastRead' = [op |-> rdOp[r], out |-> out, use |-> use,
                  disk |-> DiskContent, status |-> status,
                  lastMod |-> lastMod, latest |-> FindLatestCheckpoint,
                  dir |-> checkpointDir]
  /\ Goto(r, "idle")
  /\ rdOp' = [rdOp EXCEPT ![r] = "none"]
  /\ rdCp' = [rdCp EXCEPT ![r] = "none"]
  /\ rdMtime' = [rdMtime EXCEPT ![r] = 0]
  /\ rdLoad' = [rdLoad EXCEPT ![r] = 0]
  /\ rdUse' = [rdUse EXCEPT ![r] = NoUse]

\* A thread calls a public method of the reader.
Begin(r, op) ==
  /\ rdPc[r] = "idle"
  /\ nreads < MaxReads
  /\ nreads' = nreads + 1
  /\ Goto(r, "ensure")
  /\ rdOp' = [rdOp EXCEPT ![r] = op]
  /\ rdUse' = [rdUse EXCEPT ![r] = [NoUse EXCEPT !.changed = mtimeChanged]]
  /\ mtimeChanged' = FALSE
  /\ UNCHANGED <<cacheFrame, cacheFields, diskVars, rdCp, rdMtime, rdLoad,
                 loads, prevRead, lastRead>>

\* _ensure_cache: cp = self._find_latest_checkpoint(), and the mtime of its
\* metadata.json.
Look(r) ==
  /\ rdPc[r] = "ensure"
  /\ rdCp' = [rdCp EXCEPT ![r] = FindLatestCheckpoint]
  /\ IF FindLatestCheckpoint = "none"
     THEN /\ Goto(r, "empty")
          /\ UNCHANGED rdMtime
     ELSE /\ Goto(r, "test")
          /\ rdMtime' = [rdMtime EXCEPT ![r] = disk[FindLatestCheckpoint].mtime]
  /\ UNCHANGED <<cacheFrame, cacheFields, diskVars, rdOp, rdLoad, rdUse,
                 readLog>>

\* cp is None: the three caches are emptied (no load takes place);
\* _cache_mtime stays as it is.
Empty(r) ==
  /\ rdPc[r] = "empty"
  /\ programsCache' = [ver |-> 0, load |-> 0]
  /\ metadataCache' = [ver |-> 0, load |-> 0]
  /\ traceCache' = [ver |-> 0, load |-> 0]
  /\ Goto(r, "useMeta")
  /\ UNCHANGED <<cacheFrame, checkpointDir, cacheMtime, diskVars, rdOp, rdCp,
                 rdMtime, rdLoad, rdUse, readLog>>

\* if mtime == self._cache_mtime and self._programs_cache is not None: return
Test(r) ==
  /\ rdPc[r] = "test"
  /\ IF CacheHit(rdMtime[r])
     THEN /\ Goto(r, "useMeta")
          /\ rdUse' = [rdUse EXCEPT ![r].marker = cacheMtime.load]
     ELSE /\ Goto(r, "mark")
          /\ UNCHANGED rdUse
  /\ UNCHANGED <<cacheFrame, cacheFields, diskVars, rdOp, rdCp, rdMtime,
                 rdLoad, readLog>>

\* self._checkpoint_dir = cp; self._cache_mtime = mtime; the load begins.
Mark(r) ==
  /\ rdPc[r] = "mark"
  /\ loads' = loads + 1
  /\ checkpointDir' = rdCp[r]
  /\ cacheMtime' = [m |-> rdMtime[r], load |-> loads + 1]
  /\ rdLoad' = [rdLoad EXCEPT ![r] = loads + 1]
  /\ rdUse' = [rdUse EXCEPT ![r].marker = loads + 1, ![r].parsed = TRUE]
  /\ Goto(r, "loadMeta")
  /\ UNCHANGED <<cacheFrame, programsCache, metadataCache, traceCache,
                 diskVars, rdOp, rdCp, rdMtime, nreads, prevRead, lastRead,
                 mtimeChanged>>

\* _load_checkpoint: metadata.json is read; self._metadata_cache = meta
LoadMeta(r) ==
  /\ rdPc[r] = "loadMeta"
  /\ metadataCache' = [ver |-> DiskVer(rdCp[r]), load |-> rdLoad[r]]
  /\ Goto(r, "loadProgs")
  /\ UNCHANGED <<cacheFrame, checkpointDir, programsCache, traceCache,
                 cacheMtime, diskVars, rdOp, rdCp, rdMtime, rdLoad, rdUse,
                 readLog>>

\* _load_checkpoint: the program files are read; self._programs_cache =
\* programs, unless a file made the loop raise, which ends the public method.
LoadProgs(r) ==
  /\ rdPc[r] = "loadProgs"
  /\ IF LoadRaises(rdCp[r])
     THEN /\ Finish(r, "raised", rdUse[r], "none", 0)
          /\ UNCHANGED programsCache
     ELSE /\ programsCache' = [ver |-> DiskVer(rdCp[r]), load |-> rdLoad[r]]
          /\ Goto(r, "loadTrace")
          /\ UNCHANGED <<rdOp, rdCp, rdMtime, rdLoad, rdUse, prevRead,
                         lastRead>>
  /\ UNCHANGED <<cacheFrame, checkpointDir, metadataCache, traceCache,
                 cacheMtime, diskVars, nreads, loads, mtimeChanged>>

\* _load_checkpoint: self._trace_cache = self._load_traces()
LoadTrace(r) ==
  /\ rdPc[r] = "loadTrace"
  /\ traceCache' = [ver |-> DiskVer(rdCp[r]), load |-> rdLoad[r]]
  /\ Goto(r, "useMeta")
  /\ UNCHANGED <<cacheFrame, checkpointDir, programsCache, metadataCache,
                 cacheMtime, diskVars, rdOp, rdCp, rdMtime, rdLoad, rdUse,
                 readLog>>

\* ------------------------------------------------- the public methods' bodies
\* meta = self._metadata_cache or {}
UseMeta(r) ==
  /\ rdPc[r] = "useMeta"
  /\ rdUse' = [rdUse EXCEPT ![r].meta = metadataCache]
  /\ Goto(r, "useProgs")
  /\ UNCHANGED <<cacheFrame, cacheFields, diskVars, rdOp, rdCp, rdMtime,
                 rdLoad, readLog>>

\* programs = self._programs_cache or {}; get_metrics returns at once when
\* there are no programs.
UseProgs(r) ==
  /\ rdPc[r] = "useProgs"
  /\ LET use == [rdUse[r] EXCEPT !.progs = programsCache]
     IN IF rdOp[r] = "get_metrics" /\ Content(programsCache) = 0
        THEN Finish(r, "returned", use, "none", 0)
        ELSE /\ rdUse' = [rdUse EXCEPT ![r] = use]
             /\ Goto(r, IF rdOp[r] = "get_metrics" THEN "useTrace"
                        ELSE "status")
             /\ UNCHANGED <<rdOp, rdCp, rdMtime, rdLoad, prevRead, lastRead>>
  /\ UNCHANGED <<cacheFrame, cacheFields, diskVars, nreads, loads,
                 mtimeChanged>>

\* get_metrics: the improvement rate is computed from self._trace_cache.
UseTrace(r) ==
  /\ rdPc[r] = "useTrace"
  /\ Finish(r, "returned", [rdUse[r] EXCEPT !.trace = traceCache], "none", 0)
  /\ UNCHANGED <<cacheFrame, cacheFields, diskVars, nreads, loads,
                 mtimeChanged>>

\* get_experiment_info: status=self._infer_status(),
\* last_modified=self.get_last_modified(), and the Experiment is returned.
Status(r) ==
  /\ rdPc[r] = "status"
  /\ Finish(r, "returned", rdUse[r], InferStatus, GetLastModified)
  /\ UNCHANGED <<cacheFrame, cacheFields, diskVars, nreads, loads,
                 mtimeChanged>>

ReaderStep(r) ==
  \/ Look(r)
  \/ Empty(r)
  \/ Test(r)
  \/ Mark(r)
  \/ LoadMeta(r)
  \/ LoadProgs(r)
  \/ LoadTrace(r)
  \/ UseMeta(r)
  \/ UseProgs(r)
  \/ UseTrace(r)

DiskStep ==
  \/ \E cp \in Checkpoints, bad \in BOOLEAN : SaveCheckpoint(cp, bad)
  \/ \E bad \in BOOLEAN : AddProgram(bad)
  \/ \E cp \in Checkpoints : MoveAway(cp)
  \/ \E cp \in Checkpoints : MoveBack(cp)

\* One caller: the operations follow one another, and the directory changes
\* between them.
CacheNext ==
  \/ \E op \in Ops : Begin("r1", op)
  \/ ReaderStep("r1")
  \/ Status("r1")
  \/ NoReaderInside /\ DiskStep

\* The reader as constructed, and the rest of the system idle.
CacheInit ==
  /\ EngineInit
  /\ pollBudget = 0
  /\ startBudget = 0
  /\ hasWatchdog = FALSE
  /\ diskMtime = [e \in {"se1"} |-> 0]
  /\ AdapterInit
  /\ NoCheckpoints
  /\ ShinkaInit
  /\ RestInit

SpecCache == CacheInit /\ [][CacheNext]_vars

\* Several callers at once, while the experiment saves checkpoint cpA again
\* and again.
ConcNext ==
  \/ \E r \in Readers : nreads < MaxConcReads /\ Begin(r, "get_metrics")
  \/ \E r \in Readers : ReaderStep(r)
  \/ writes < MaxConcWrites /\ SaveCheckpoint("cpA", FALSE)

SpecCacheConc == CacheInit /\ [][ConcNext]_vars

\* ------------------------------------------------ _db_retry, _connect, _query
dbFrame == <<engineVars, cacheVars, restVars>>

\* os.path.exists(self._db_path); the store file is the one the engine polls.
StoreExists == diskMtime["se1"] > 0

\* self.get_last_modified() / self._infer_status() of the relational reader
ShinkaLastModified == IF StoreExists THEN diskMtime["se1"] ELSE 0

ShinkaStatus == IF ShinkaLastModified = 0 THEN "UNKNOWN" ELSE "BY_AGE"

\* The wrapper returns, or re-raises after the last attempt: the call joins
\* the history, with the connections that are open at that moment.
DbFinish(out, errors, leaked) ==
  /\ lastCall' = [method |-> dbMethod, out |-> out, exists |-> StoreExists,
                  attempts |-> dbAttempt + 1, slept |-> dbSlept,
                  errors |-> errors, open |-> leaked,
                  status |-> IF out = "returned" THEN ShinkaStatus ELSE "none",
                  lastMod |-> IF out = "returned" THEN ShinkaLastModified
                              ELSE 0]
  /\ dbPc' = "idle"
  /\ dbMethod' = "none"
  /\ dbAttempt' = 0
  /\ delay' = 0
  /\ dbStmt' = 0
  /\ dbErrors' = 0
  /\ dbSlept' = <<>>

\* The statement in progress is over: it succeeded, or raised a storage error
\* that a try block of the body swallows, and the body goes on; or the error
\* reaches the wrapper, which sleeps, or re-raises when i == max_retries - 1.
StatementEnds(raised, leaked) ==
  LET errors == dbErrors + (IF raised THEN 1 ELSE 0)
  IN /\ dbConn' = 0
     /\ dbLeaked' = leaked
     /\ IF ~raised \/ Body(dbMethod)[dbStmt] = "guarded"
        THEN /\ dbStmt' = dbStmt + 1
             /\ dbPc' = "body"
             /\ dbErrors' = errors
             /\ UNCHANGED <<dbMethod, dbAttempt, delay, dbSlept, lastCall>>
        ELSE IF dbAttempt = max_retries - 1
        THEN DbFinish("raised", errors, leaked)
        ELSE /\ dbPc' = "sleep"
             /\ dbErrors' = errors
             /\ UNCHANGED <<dbMethod, dbAttempt, delay, dbStmt, dbSlept,
                            lastCall>>

\* A caller invokes a capability method: the wrapper's first attempt begins.
DbCall(m) ==
  /\ dbPc = "idle"
  /\ ncalls < MaxCalls
  /\ ncalls' = ncalls + 1
  /\ dbMethod' = m
  /\ dbAttempt' = 0
  /\ delay' = InitialDelay
  /\ dbStmt' = 1
  /\ dbErrors' = 0
  /\ dbSlept' = <<>>
  /\ dbPc' = "body"
  /\ UNCHANGED <<dbFrame, dbConn, dbLeaked, lastCall>>

\* _connect for the next statement: sqlite3.connect raises for a missing
\* file (mode=ro); for a file that exists it opens a connection, and then a
\* PRAGMA statement may raise, which leaves _connect without closing it.
Connect(pragmaOk) ==
  /\ dbPc = "body"
  /\ dbStmt <= Len(Body(dbMethod))
  /\ IF ~StoreExists
     THEN StatementEnds(TRUE, dbLeaked)
     ELSE IF pragmaOk
     THEN /\ dbConn' = 1
          /\ dbPc' = "connected"
          /\ UNCHANGED <<dbLeaked, dbMethod, dbAttempt, delay, dbStmt,
                         dbErrors, dbSlept, lastCall>>
     ELSE StatementEnds(TRUE, dbLeaked + 1)
  /\ UNCHANGED <<dbFrame, ncalls>>

\* _query / _query_one: conn.execute returns rows or raises; finally:
\* conn.close().
Execute(ok) ==
  /\ dbPc = "connected"
  /\ StatementEnds(~ok, dbLeaked)
  /\ UNCHANGED <<dbFrame, ncalls>>

\* _time.sleep(delay); delay *= 2; the next attempt runs the body again.
Sleep ==
  /\ dbPc = "sleep"
  /\ dbSlept' = Append(dbSlept, delay)
  /\ delay' = delay * 2
  /\ dbAttempt' = dbAttempt + 1
  /\ dbStmt' = 1
  /\ dbPc' = "body"
  /\ UNCHANGED <<dbFrame, dbConn, dbLeaked, dbMethod, dbErrors, ncalls,
                 lastCall>>

\* The body has run all its statements: return func(*args, **kwargs)
DbReturn ==
  /\ dbPc = "body"
  /\ dbStmt > Len(Body(dbMethod))
  /\ DbFinish("returned", dbErrors, dbLeaked)
  /\ UNCHANGED <<dbFrame, dbConn, dbLeaked, ncalls>>

\* The runtime finalises a connection nothing refers to any more; when it
\* does so is up to the interpreter.
Collect ==
  /\ dbLeaked > 0
  /\ dbLeaked' = dbLeaked - 1
  /\ UNCHANGED <<dbFrame, dbConn, dbPc, dbMethod, dbAttempt, delay, dbStmt,
                 dbErrors, dbSlept, ncalls, lastCall>>

DbStep ==
  \/ \E ok \in BOOLEAN : Connect(ok)
  \/ \E ok \in BOOLEAN : Execute(ok)
  \/ Sleep
  \/ DbReturn
  \/ Collect

\* One caller of both readers: capability methods of the relational reader,
\* and get_experiment_info of a checkpoint reader whose experiment path holds
\* no checkpoint (or does not exist).
DbNext ==
  \/ \E m \in Methods : NoReaderInside /\ DbCall(m)
  \/ DbStep
  \/ /\ dbPc = "idle"
     /\ nreads < MaxInfoReads
     /\ Begin("r1", "get_experiment_info")
  \/ Look("r1")
  \/ Empty("r1")
  \/ UseMeta("r1")
  \/ UseProgs("r1")
  \/ Status("r1")

\* Both readers as constructed; the store file exists or not.
DbInit ==
  /\ EngineInit
  /\ pollBudget = 0
  /\ startBudget = 0
  /\ hasWatchdog = FALSE
  /\ diskMtime \in [{"se1"} -> {0, 100}]
  /\ AdapterInit
  /\ NoCheckpoints
  /\ ShinkaInit
  /\ RestInit

SpecDb == DbInit /\ [][DbNext]_vars

\* ------------------------------------------------------------ the registry
regFrame == <<engineVars, cacheVars, dbVars, mgrVars, queryVars,
              fireThreadVars>>

\* An exception leaving a function is the result "raised"; the value it
\* would have returned is lost.
Raised == [ok |-> FALSE, list |-> <<>>]

Position(cfgs, name) ==
  IF \E i \in 1..Len(cfgs) : cfgs[i].name = name
  THEN CHOOSE i \in 1..Len(cfgs) : cfgs[i].name = name
  ELSE 0

\* self._configs[config.name] = config: a name the dict already holds keeps
\* its place, a new name goes to the end.
WithConfigAtEnd(cfgs, cfg) ==
  SelectSeq(cfgs, LAMBDA c : c.name # cfg.name) \o <<cfg>>

WithConfig(cfgs, cfg) ==
  IF Position(cfgs, cfg.name) = 0
  THEN Append(cfgs, cfg)
  ELSE [cfgs EXCEPT ![Position(cfgs, cfg.name)] = cfg]

\* register(config)
Register(cfg) ==
  /\ Len(regLog) < MaxRegs
  /\ configs' = WithConfig(configs, cfg)
  /\ regLog' = Append(regLog, cfg.name)
  /\ lastDetect' = NoDetect
  /\ discovered' = <<>>
  /\ UNCHANGED regFrame

\* try: if config.detect(path): ... except Exception: continue
\* A predicate that raises counts as one that rejected.
DetectUncaught(kind, path) == Predicate(kind, path)

DetectOrSkip(kind, path) ==
  IF Predicate(kind, path) = "yes" THEN "yes" ELSE "no"

\* detect_framework(path): the loop over self._configs.items()
RECURSIVE DetectFrom(_, _)
DetectFrom(cfgs, path) ==
  IF cfgs = <<>> THEN "None"
  ELSE LET out == DetectOrSkip(Head(cfgs).detect, path)
       IN  IF out = "yes" THEN Head(cfgs).name
           ELSE IF out = "raise" THEN "raised"
           ELSE DetectFrom(Tail(cfgs), path)

DetectFramework(path) ==
  /\ lastDetect' = [path |-> path, out |-> DetectFrom(configs, path)]
  /\ UNCHANGED <<configs, regLog, discovered, regFrame>>

\* try: experiment_path = resolver(match_path) except Exception: continue
ResolveOrSkip(kind, m) ==
  IF kind = "none" THEN m
  ELSE IF Resolver(kind, m) = "raise" THEN "skip"
  ELSE Resolver(kind, m)

\* real in seen_paths: seen_paths holds the real path of every result.
AlreadySeenNever(real, results) == FALSE

AlreadySeen(real, results) ==
  \E i \in 1..Len(results) : RealPath(results[i].path) = real

\* One iteration of the innermost loop of discover_experiments().
DiscoverMatch(cfg, m, acc) ==
  LET experiment_path == ResolveOrSkip(cfg.resolver, m)
      out == DetectOrSkip(cfg.detect, experiment_path)
  IN  IF ~acc.ok \/ experiment_path = "skip" THEN acc
      ELSE IF AlreadySeen(RealPath(experiment_path), acc.list) THEN acc
      ELSE IF out = "yes"
           THEN [acc EXCEPT !.list =
                   Append(@, [path |-> experiment_path, name |-> cfg.name])]
           ELSE IF out = "raise" THEN Raised
           ELSE acc

RECURSIVE DiscoverMatches(_, _, _)
DiscoverMatches(cfg, ms, acc) ==
  IF ms = <<>> THEN acc
  ELSE DiscoverMatches(cfg, Tail(ms), DiscoverMatch(cfg, Head(ms), acc))

RECURSIVE DiscoverPatterns(_, _, _)
DiscoverPatterns(cfg, ps, acc) ==
  IF ps = <<>> THEN acc
  ELSE DiscoverPatterns(cfg, Tail(ps),
                        DiscoverMatches(cfg, Glob(Head(ps)), acc))

RECURSIVE DiscoverConfigs(_, _)
DiscoverConfigs(cfgs, acc) ==
  IF cfgs = <<>> THEN acc
  ELSE DiscoverConfigs(Tail(cfgs),
                       DiscoverPatterns(Head(cfgs),
                                        Head(cfgs).glob_patterns, acc))

\* discover_experiments(base_dir)
DiscoverExperiments ==
  /\ Len(discovered) < MaxDiscovers
  /\ discovered' =
       Append(discovered, DiscoverConfigs(configs, [ok |-> TRUE, list |-> <<>>]))
  /\ UNCHANGED <<configs, regLog, lastDetect, regFrame>>

RegistryNext ==
  \/ \E cfg \in ProjectConfig : Register(cfg)
  \/ \E path \in ExperimentPaths : DetectFramework(path)
  \/ DiscoverExperiments

RegistryStart ==
  /\ EngineInit
  /\ pollBudget = 0
  /\ startBudget = 0
  /\ hasWatchdog = FALSE
  /\ diskMtime = [e \in {"se1"} |-> 0]
  /\ AdapterInit
  /\ NoCheckpoints
  /\ ShinkaInit
  /\ RestInit

SpecRegistry == RegistryStart /\ [][RegistryNext]_vars

\* ------------------------------------------------------------ the manager
mgrFrame == <<engineVars, cacheVars, dbVars, regVars, queryVars,
              fireThreadVars>>

\* auto_detect.discover_experiments lists the store files first, then the
\* checkpoint trees.
ScanOrder == <<"x3", "x1", "x2">>

\* _create_adapter: a reader of the root, or None for an unknown framework.
\* The constructors only assign fields.
CreateAdapter(x) ==
  IF FrameworkOf(x) \in {"openevolve", "shinkaevolve"} THEN x ELSE "None"

\* try: info = adapter.get_experiment_info() ... except Exception: warning
InfoUncaught(outcome) == IF outcome = "raises" THEN "raise" ELSE "ok"

InfoOrSkip(outcome) == IF outcome = "raises" THEN "skip" ELSE "ok"

\* One iteration of the loop of scan(); acc.raised: an exception left it.
ScanOne(x, outcome, acc) ==
  LET adapter == CreateAdapter(x)
      info == InfoOrSkip(outcome)
  IN  IF acc.raised \/ outcome = "absent" \/ adapter = "None" THEN acc
      ELSE IF info = "ok"
           THEN [acc EXCEPT !.adapters[MakeId(x)] = adapter,
                            !.experiments[MakeId(x)] = x]
           ELSE IF info = "raise" THEN [acc EXCEPT !.raised = TRUE]
           ELSE acc

RECURSIVE ScanFrom(_, _, _)
ScanFrom(order, found, acc) ==
  IF order = <<>> THEN acc
  ELSE ScanFrom(Tail(order), found,
                ScanOne(Head(order), found[Head(order)], acc))

\* scan()
Scan(found) ==
  LET acc == ScanFrom(ScanOrder, found,
                      [adapters |-> adapters, experiments |-> experiments,
                       raised |-> FALSE])
  IN  /\ adapters' = acc.adapters
      /\ experiments' = acc.experiments
      /\ lastScan' = [called |-> TRUE, found |-> found, before |-> adapters,
                      raised |-> acc.raised]
      /\ lastList' = NoList
      /\ UNCHANGED mgrFrame

\* list_experiments(): a fresh info per reader, the cached one when the
\* reader raises.
ListExperiments(outcome) ==
  LET fresh == {i \in Ids : adapters[i] # "none" /\ outcome[i] = "ok"}
      cached == {i \in Ids : /\ adapters[i] # "none"
                             /\ outcome[i] = "raises"
                             /\ experiments[i] # "none"}
  IN  /\ experiments' = [i \in Ids |-> IF i \in fresh THEN adapters[i]
                                       ELSE experiments[i]]
      /\ lastList' = [called |-> TRUE,
                      items |-> {[id |-> i, path |-> experiments'[i]] :
                                   i \in fresh \cup cached}]
      /\ UNCHANGED <<adapters, lastScan, mgrFrame>>

ManagerNext ==
  \/ \E found \in [Roots -> InfoOutcomes \cup {"absent"}] : Scan(found)
  \/ \E outcome \in [Ids -> InfoOutcomes] : ListExperiments(outcome)

SpecManager == RegistryStart /\ [][ManagerNext]_vars

\* ------------------------------------------- the strategy of an experiment
\* change_detection of the descriptor registered for a framework name
\* (configs/projects), and the default of ProjectConfig for any other name.
DeclaredStrategy(framework) ==
  IF framework = "openevolve" THEN "watchdog" ELSE "poll"

\* The engine with experiments of three framework names, on a host with or
\* without the watch backend; os.path.getmtime does not raise here, so the
\* poll loop handles an experiment exactly when PollOne records a poll.
StrategyNext ==
  \/ \E e \in {"se1"}, m \in Mtimes : m > diskMtime[e] /\ Touch(e, m)
  \/ \E e \in Exps \cup {"xe1"}, ok \in BOOLEAN : RegisterExperiment(e, ok)
  \/ Start
  \/ \E t \in PollThreads : PollCheck(t)
  \/ \E t \in PollThreads : PollOne(t)
  \/ \E t \in PollThreads : PollEndIter(t)
  \/ \E t \in PollThreads : PollWake(t)

StrategyInit ==
  /\ EngineInit
  /\ pollBudget = MaxStrategyPolls
  /\ startBudget = 1
  /\ hasWatchdog \in BOOLEAN
  /\ diskMtime \in [{"se1"} -> {0, 100}]
  /\ AdapterInit
  /\ NoCheckpoints
  /\ ShinkaInit
  /\ RestInit

SpecStrategy == StrategyInit /\ [][StrategyNext]_vars

\* ------------------------------------------------------------ get_programs
queryFrame == <<engineVars, cacheVars, dbVars, regVars, mgrVars,
                fireThreadVars>>

\* Everything but the store, before any query.
StoreStart ==
  /\ EngineInit
  /\ pollBudget = 0
  /\ startBudget = 0
  /\ hasWatchdog = FALSE
  /\ diskMtime = [e \in {"se1"} |-> 0]
  /\ AdapterInit
  /\ NoCheckpoints
  /\ ShinkaInit
  /\ RegistryInit
  /\ ManagerInit
  /\ FireThreadsIdle
  /\ lastQuery = NoQuery
  /\ LineageIdle

\* Arguments of get_programs; -1 stands for a filter left at None.
PageSizes == {1, 2}
Queries ==
  [page : 1..MaxPage, page_size : PageSizes, sort_by : {"generation"},
   sort_desc : BOOLEAN, island_id : {-1, 0}, generation_min : {-1, 1},
   generation_max : {-1, 0}, score_min : {-1, 1}, archive_only : BOOLEAN,
   correct_only : BOOLEAN]

\* The number of stored programs whose parent_id is pid.
ParentCount(pid) ==
  Cardinality({i \in 1..Len(programs) : programs[i].parent_id = pid})

\* _prog_to_unified: correctness is not tracked, children_count starts at 0.
ProgToUnified(prog) ==
  [id |-> prog.id, parent_id |-> prog.parent_id,
   generation |-> prog.generation, island_id |-> prog.island_id,
   score |-> prog.score, correct |-> TRUE, children_count |-> 0,
   in_archive |-> prog.archived]

\* _row_to_unified followed by the caller's in_archive assignment.
RowToUnified(row) ==
  [id |-> row.id, parent_id |-> row.parent_id,
   generation |-> row.generation, island_id |-> row.island_id,
   score |-> row.score, correct |-> row.correct,
   children_count |-> row.children_count, in_archive |-> row.archived]

SortKey(p, sort_by) == IF sort_by = "score" THEN p.score ELSE p.generation

\* list.sort(key, reverse) and ORDER BY: equal keys keep the storage order.
Precedes(x, y, q) ==
  IF q.sort_desc THEN SortKey(x, q.sort_by) > SortKey(y, q.sort_by)
  ELSE SortKey(x, q.sort_by) < SortKey(y, q.sort_by)

RECURSIVE InsertSorted(_, _, _)
InsertSorted(x, sorted, q) ==
  IF sorted = <<>> THEN <<x>>
  ELSE IF Precedes(x, Head(sorted), q) THEN <<x>> \o sorted
  ELSE <<Head(sorted)>> \o InsertSorted(x, Tail(sorted), q)

RECURSIVE SortedBy(_, _)
SortedBy(ps, q) ==
  IF ps = <<>> THEN <<>>
  ELSE InsertSorted(ps[Len(ps)], SortedBy(SubSeq(ps, 1, Len(ps) - 1), q), q)

\* seq[start:start + size] of Python, LIMIT size OFFSET start of SQL.
Slice(ps, start, size) ==
  SubSeq(ps, start + 1, IF start + size < Len(ps) THEN start + size ELSE Len(ps))

\* The ids of a list of programs.
IdsOf(ps) == [i \in 1..Len(ps) |-> ps[i].id]

\* The filters both readers apply to a column.
ColumnFilters(p, q) ==
  /\ q.island_id # -1 => p.island_id = q.island_id
  /\ q.generation_min # -1 => p.generation >= q.generation_min
  /\ q.generation_max # -1 => p.generation <= q.generation_max
  /\ q.score_min # -1 => p.score >= q.score_min

\* OpenEvolveAdapter.get_programs
OeGetPrograms(q) ==
  LET all_progs == [i \in 1..Len(programs) |->
                      [ProgToUnified(programs[i]) EXCEPT
                         !.children_count = ParentCount(programs[i].id)]]
      filtered == SelectSeq(all_progs, LAMBDA p :
                    ColumnFilters(p, q) /\ (q.archive_only => p.in_archive))
      sorted == SortedBy(filtered, q)
  IN  [page |-> Slice(sorted, (q.page - 1) * q.page_size, q.page_size),
       total |-> Len(sorted)]

\* ShinkaAdapter.get_programs: the WHERE clause, the count query, the page
\* query, and the archive filter applied to the rows of the page.
ShGetPrograms(q) ==
  LET where == SelectSeq(programs, LAMBDA r :
                 ColumnFilters(r, q) /\ (q.correct_only => r.correct))
      rows == Slice(SortedBy(where, q), (q.page - 1) * q.page_size,
                    q.page_size)
      unified == [i \in 1..Len(rows) |-> RowToUnified(rows[i])]
  IN  [page |-> SelectSeq(unified, LAMBDA p :
                  ~(q.archive_only /\ ~p.in_archive)),
       total |-> Len(where)]

\* The query methods keep no state between calls: one call is explored per
\* store.
GetPrograms(q) ==
  /\ lastQuery = NoQuery
  /\ lastQuery' =
       [op |-> "get_programs", q |-> q,
        out |-> IF reader = "openevolve" THEN OeGetPrograms(q)
                ELSE ShGetPrograms(q)]
  /\ UNCHANGED <<storeVars, lineageVars, queryFrame>>

ProgramsNext ==
  \/ \E q \in Queries : GetPrograms(q)

\* A program with any island, generation, score, archive membership and
\* correctness, a second one of island 0 and score 1, and a third one, read
\* by either reader.
PagedPrograms ==
  {Stored(id, "None", gen, isl, sc, arch, corr, 0) :
     id \in {"p"}, gen \in {0, 1}, isl \in {0, 1}, sc \in {0, 1},
     arch \in BOOLEAN, corr \in BOOLEAN}

ProgramsInit ==
  /\ StoreStart
  /\ reader \in StoreReaders
  /\ \E a, b \in PagedPrograms :
       /\ b.island_id = 0
       /\ b.score = 1
       /\ programs = <<[a EXCEPT !.id = "p1"], [b EXCEPT !.id = "p2"],
                       Stored("p3", "None", 1, 0, 1, TRUE, TRUE, 0)>>
  /\ bestId = "None"

SpecPrograms == ProgramsInit /\ [][ProgramsNext]_vars

\* ------------------------------------------------ get_program, search_code
\* The letters of a program's code, and the queries search_code is asked.
CodeOf(id) ==
  IF id = "p1" THEN {"a", "b"} ELSE IF id = "p2" THEN {"b"} ELSE {"a"}

CodeQueries == {"a", "b", "c"}

\* OpenEvolveAdapter.get_program: the program as _prog_to_unified built it.
OeGetProgram(pid) ==
  [i \in 1..Len(SelectSeq(programs, LAMBDA prog : prog.id = pid)) |->
     ProgToUnified(SelectSeq(programs, LAMBDA prog : prog.id = pid)[i])]

\* ShinkaAdapter.get_program: SELECT * FROM programs WHERE id = ?
ShGetProgram(pid) ==
  [i \in 1..Len(SelectSeq(programs, LAMBDA row : row.id = pid)) |->
     RowToUnified(SelectSeq(programs, LAMBDA row : row.id = pid)[i])]

\* get_program(program_id); an empty result is None.
GetProgram(pid) ==
  /\ lastQuery = NoQuery
  /\ lastQuery' =
       [op |-> "get_program", q |-> pid,
        out |-> IF reader = "openevolve" THEN OeGetProgram(pid)
                ELSE ShGetProgram(pid)]
  /\ UNCHANGED <<storeVars, lineageVars, queryFrame>>

\* OpenEvolveAdapter.search_code: the first max_results matching programs.
OeSearchCode(query, max_results) ==
  LET found == SelectSeq(programs, LAMBDA prog : query \in CodeOf(prog.id))
  IN  [i \in 1..Len(Slice(found, 0, max_results)) |-> ProgToUnified(found[i])]

\* ShinkaAdapter.search_code: WHERE code LIKE ? LIMIT ?
ShSearchCode(query, max_results) ==
  LET found == SelectSeq(programs, LAMBDA row : query \in CodeOf(row.id))
  IN  [i \in 1..Len(Slice(found, 0, max_results)) |-> RowToUnified(found[i])]

\* search_code(query, max_results)
SearchCode(query, max_results) ==
  /\ lastQuery = NoQuery
  /\ lastQuery' =
       [op |-> "search_code", q |-> query,
        out |-> IF reader = "openevolve" THEN OeSearchCode(query, max_results)
                ELSE ShSearchCode(query, max_results)]
  /\ UNCHANGED <<storeVars, lineageVars, queryFrame>>

\* get_programs without filters, both sort directions.
Unfiltered ==
  {q \in Queries : /\ q.page = 1 /\ q.page_size = 2 /\ q.island_id = -1
                   /\ q.generation_min = -1 /\ q.generation_max = -1
                   /\ q.score_min = -1 /\ ~q.archive_only /\ ~q.correct_only}

ChildrenNext ==
  \/ \E q \in Unfiltered : GetPrograms(q)
  \/ \E pid \in ProgramIds \cup {"px"} : GetProgram(pid)
  \/ \E query \in CodeQueries, n \in 1..MaxResults : SearchCode(query, n)

\* Three programs with any parent pointer (none, a program of the store, a
\* program that is not in it) and any stored children_count.
ChildrenInit ==
  /\ StoreStart
  /\ reader \in StoreReaders
  /\ \E parent \in [ProgramIds -> ProgramIds \cup {"None", "px"}],
        cc \in [ProgramIds -> 0..2] :
       programs = <<Stored("p1", parent["p1"], 0, 0, 1, FALSE, TRUE, cc["p1"]),
                    Stored("p2", parent["p2"], 1, 0, 1, FALSE, TRUE, cc["p2"]),
                    Stored("p3", parent["p3"], 1, 0, 1, FALSE, TRUE, cc["p3"])>>
  /\ bestId = "None"

SpecChildren == ChildrenInit /\ [][ChildrenNext]_vars

\* ------------------------------------------------------------- get_lineage
NodeIds == {programs[i].id : i \in 1..Len(programs)}

ProgramOf(id) == programs[CHOOSE i \in 1..Len(programs) : programs[i].id = id]

\* nodes[node.parent_id].children.append(pid), in storage order
ChildrenOf(id) ==
  IdsOf(SelectSeq(programs, LAMBDA c :
          c.parent_id # "None" /\ c.parent_id \in NodeIds /\ c.parent_id = id))

\* n.parent_id is None or n.parent_id not in nodes
IsRootNullOnly(prog) == prog.parent_id = "None"

IsRoot(prog) == prog.parent_id = "None" \/ prog.parent_id \notin NodeIds

\* The best program id get_lineage starts from: metadata's best_program_id,
\* or the id of a row of highest combined_score (none in an empty table).
BestCandidates ==
  IF reader = "openevolve" THEN {bestId}
  ELSE IF programs = <<>> THEN {"None"}
  ELSE {programs[i].id : i \in {k \in 1..Len(programs) :
          \A l \in 1..Len(programs) : programs[l].score <= programs[k].score}}

\* if best_pid and best_pid in nodes / if best_row
EntersWalk(best) ==
  IF reader = "openevolve" THEN best # "None" /\ best \in NodeIds
  ELSE best # "None"

\* get_lineage(program_id) up to the golden path
LineageBegin(program_id) ==
  /\ lastQuery = NoQuery
  /\ lnPc = "idle"
  /\ lnArg' = program_id
  /\ lnChildren' = [id \in ProgramIds |-> ChildrenOf(id)]
  /\ lnRoots' = IdsOf(SelectSeq(programs, IsRoot))
  /\ \E best \in BestCandidates :
       /\ lnBest' = best
       /\ lnPc' = IF EntersWalk(best) THEN "walk" ELSE "filter"
       /\ lnCurr' = IF EntersWalk(best) THEN best ELSE "None"
  /\ lnPath' = <<>>
  /\ lnSteps' = 0
  /\ UNCHANGED <<storeVars, lastQuery, lnStack, lnSub, queryFrame>>

\* while curr and curr in nodes: one iteration
LineageWalk ==
  /\ lnPc = "walk"
  /\ lnCurr # "None" /\ lnCurr \in NodeIds
  /\ lnSteps < MaxLoop
  /\ lnPath' = Append(lnPath, lnCurr)
  /\ lnCurr' = ProgramOf(lnCurr).parent_id
  /\ lnSteps' = lnSteps + 1
  /\ UNCHANGED <<storeVars, lastQuery, lnPc, lnArg, lnBest, lnChildren,
                 lnRoots, lnStack, lnSub, queryFrame>>

\* best_path.reverse()
NotReversed(path) == path

Reversed(path) == [i \in 1..Len(path) |-> path[Len(path) + 1 - i]]

\* The while loop ends.
LineageWalkEnd ==
  /\ lnPc = "walk"
  /\ ~(lnCurr # "None" /\ lnCurr \in NodeIds)
  /\ lnPath' = Reversed(lnPath)
  /\ lnPc' = "filter"
  /\ lnSteps' = 0
  /\ UNCHANGED <<storeVars, lastQuery, lnArg, lnBest, lnChildren, lnRoots,
                 lnCurr, lnStack, lnSub, queryFrame>>

LineageTree(nodes, root_ids) ==
  [op |-> "get_lineage", q |-> lnArg, best |-> lnBest,
   out |-> [nodes |-> nodes, children |-> lnChildren, root_ids |-> root_ids,
            best_path |-> lnPath]]

\* if program_id and program_id in nodes: the subtree walk begins; otherwise
\* the whole tree is returned.
LineageFilter ==
  /\ lnPc = "filter"
  /\ IF lnArg # "None" /\ lnArg \in NodeIds
     THEN /\ lnPc' = "subtree"
          /\ lnStack' = <<lnArg>>
          /\ lnSub' = {}
          /\ UNCHANGED lastQuery
     ELSE /\ lnPc' = "idle"
          /\ lastQuery' = LineageTree(NodeIds, lnRoots)
          /\ UNCHANGED <<lnStack, lnSub>>
  /\ UNCHANGED <<storeVars, lnArg, lnBest, lnChildren, lnRoots, lnCurr,
                 lnPath, lnSteps, queryFrame>>

\* while stack: nid = stack.pop(); ...; stack.extend(nodes[nid].children)
LineageSubtree ==
  /\ lnPc = "subtree"
  /\ lnStack # <<>>
  /\ lnSteps < MaxLoop
  /\ LET nid == lnStack[Len(lnStack)]
     IN  /\ lnSub' = lnSub \cup {nid}
         /\ lnStack' = SubSeq(lnStack, 1, Len(lnStack) - 1) \o lnChildren[nid]
  /\ lnSteps' = lnSteps + 1
  /\ UNCHANGED <<storeVars, lastQuery, lnPc, lnArg, lnBest, lnChildren,
                 lnRoots, lnCurr, lnPath, queryFrame>>

\* The subtree is complete: the tree rooted at program_id is returned.
LineageReturn ==
  /\ lnPc = "subtree"
  /\ lnStack = <<>>
  /\ lnPc' = "idle"
  /\ lastQuery' = LineageTree(lnSub, <<lnArg>>)
  /\ UNCHANGED <<storeVars, lnArg, lnBest, lnChildren, lnRoots, lnCurr,
                 lnPath, lnStack, lnSub, lnSteps, queryFrame>>

LineageNext ==
  \/ \E program_id \in ProgramIds \cup {"None", "px"} :
       LineageBegin(program_id)
  \/ LineageWalk
  \/ LineageWalkEnd
  \/ LineageFilter
  \/ LineageSubtree
  \/ LineageReturn

\* Up to three programs with any parent pointer (none, a program of the
\* store, a program that is not in it); the checkpoint's metadata names any
\* program, a missing one or none as the best, the table's rows have any
\* scores.
LineageInit ==
  /\ StoreStart
  /\ reader \in StoreReaders
  /\ \E parent \in [ProgramIds -> ProgramIds \cup {"None", "px"}],
        score \in [ProgramIds -> {1, 2}], n \in 0..3 :
       /\ reader = "openevolve" => \A id \in ProgramIds : score[id] = 1
       /\ programs =
            SubSeq(<<Stored("p1", parent["p1"], 0, 0, score["p1"], FALSE, TRUE, 0),
                     Stored("p2", parent["p2"], 1, 0, score["p2"], FALSE, TRUE, 0),
                     Stored("p3", parent["p3"], 2, 0, score["p3"], FALSE, TRUE, 0)>>,
                   1, n)
  /\ bestId \in IF reader = "openevolve" THEN ProgramIds \cup {"None", "pz"}
                ELSE {"None"}

SpecLineage == LineageInit /\ [][LineageNext]_vars

\* ------------------------------------------------------------- get_metrics
\* for p in programs: gen_best[g] = max(gen_best.get(g, 0), s).  The dict
\* is a set of (generation, value) pairs with one pair per generation.
HasGen(gen_best, g) == \E e \in gen_best : e.generation = g

GetGen(gen_best, g, default) ==
  IF HasGen(gen_best, g)
  THEN (CHOOSE e \in gen_best : e.generation = g).value
  ELSE default

Max2(a, b) == IF a >= b THEN a ELSE b

RECURSIVE GenBest(_, _)
GenBest(rows, gen_best) ==
  IF rows = <<>> THEN gen_best
  ELSE LET g == Head(rows).generation
           v == Max2(GetGen(gen_best, g, 0), Head(rows).score)
       IN  GenBest(Tail(rows),
                   {e \in gen_best : e.generation # g}
                     \cup {[generation |-> g, value |-> v]})

\* sorted(gen_best.items()): the pairs by ascending generation
RECURSIVE SortedItems(_)
SortedItems(items) ==
  IF items = {} THEN <<>>
  ELSE LET first == CHOOSE e \in items :
                      \A f \in items : e.generation <= f.generation
       IN  <<first>> \o SortedItems(items \ {first})

\* for pt in best_history: running_max = max(running_max, pt.value);
\* pt.value = running_max
NoRunningMax(points, running_max) == points

RECURSIVE RunningMax(_, _)
RunningMax(points, running_max) ==
  IF points = <<>> THEN <<>>
  ELSE LET m == Max2(running_max, Head(points).value)
       IN  <<[generation |-> Head(points).generation, value |-> m]>>
             \o RunningMax(Tail(points), m)

\* best_score_history of get_metrics; both readers build it the same way,
\* and an empty store gives the empty MetricsSummary().
BestScoreHistory ==
  IF programs = <<>> THEN <<>>
  ELSE RunningMax(SortedItems(GenBest(programs, {})), 0)

\* Rows of one island: isl = (p.get("metadata") or {}).get("island") in the
\* checkpoint reader, r["island_idx"] in the relational one.
OnIsland(rows, isl) == SelectSeq(rows, LAMBDA r : r.island_id = isl)

\* The islands that get a series: rows whose island is None (-1) are skipped.
IslandsOf(rows) == {rows[i].island_id : i \in 1..Len(rows)} \ {-1}

\* island_best.setdefault(isl, {})[g] = max(island_best.get(isl, {}).get(g, 0), s)
\* per_island = {isl: [TimeSeriesPoint(g, v) for g, v in sorted(gb.items())]}
\* Both readers build it the same way; no running-max loop follows.
PerIslandBest ==
  IF programs = <<>> THEN {}
  ELSE {[island |-> isl,
         points |-> SortedItems(GenBest(OnIsland(programs, isl), {}))] :
          isl \in IslandsOf(programs)}

\* get_metrics()
GetMetrics ==
  /\ lastQuery = NoQuery
  /\ lastQuery' = [op |-> "get_metrics",
                   out |-> [best_score_history |-> BestScoreHistory,
                            per_island_best |-> PerIslandBest]]
  /\ UNCHANGED <<storeVars, lineageVars, queryFrame>>

MetricsNext ==
  \/ GetMetrics

\* Up to three programs with any generation, any score, negative ones
\* included, and any island (-1: none), in any storage order.
MetricsInit ==
  /\ StoreStart
  /\ reader \in StoreReaders
  /\ \E gen \in [ProgramIds -> 0..2], score \in [ProgramIds -> -1..2],
        isl \in [ProgramIds -> {-1, 0, 1}], n \in 0..3 :
       programs =
         SubSeq(<<Stored("p1", "None", gen["p1"], isl["p1"], score["p1"],
                         FALSE, TRUE, 0),
                  Stored("p2", "None", gen["p2"], isl["p2"], score["p2"],
                         FALSE, TRUE, 0),
                  Stored("p3", "None", gen["p3"], isl["p3"], score["p3"],
                         FALSE, TRUE, 0)>>,
                1, n)
  /\ bestId = "None"

SpecMetrics == MetricsInit /\ [][MetricsNext]_vars

\* ------------------------------------------------- non-finite numbers
\* A stored JSON or column value: a finite number, NaN, +/-Infinity, null or
\* a string.  Floats are finite up to FloatMax in magnitude; a sum beyond it
\* is an infinity, as for IEEE doubles.
FloatMax == 2

Num(n) == [kind |-> "num", v |-> n]
Nan == [kind |-> "nan", v |-> 0]
Inf(sign) == [kind |-> "inf", v |-> sign]
Null == [kind |-> "null", v |-> 0]
Str == [kind |-> "str", v |-> 0]

Numbers == {Num(0), Num(1), Num(FloatMax), Nan, Inf(1), Inf(-1)}
Values == Numbers \cup {Null, Str}

MetricKeys == <<"ma", "mb">>
NoMetrics == [k \in {} |-> Null]
MetricMaps(keys) == UNION {[d -> Values] : d \in SUBSET keys}

\* a + b on floats
FloatAdd(a, b) ==
  IF a.kind = "nan" \/ b.kind = "nan" THEN Nan
  ELSE IF a.kind = "inf" /\ b.kind = "inf"
  THEN (IF a.v = b.v THEN a ELSE Nan)
  ELSE IF a.kind = "inf" THEN a
  ELSE IF b.kind = "inf" THEN b
  ELSE IF a.v + b.v > FloatMax THEN Inf(1)
  ELSE IF a.v + b.v < 0 - FloatMax THEN Inf(-1)
  ELSE Num(a.v + b.v)

\* _safe_json_float(v): a number, not a bool, neither infinite nor NaN
SafeJsonFloat(v) == v.kind = "num"

\* _safe_sum_metrics(metrics): sum(vals) if vals else 0.0, over the values
\* that pass _safe_json_float, in the mapping's order
RECURSIVE SumFrom(_, _, _)
SumFrom(metrics, keys, acc) ==
  IF keys = <<>> THEN acc
  ELSE SumFrom(metrics, Tail(keys),
               IF Head(keys) \in DOMAIN metrics /\ SafeJsonFloat(metrics[Head(keys)])
               THEN FloatAdd(acc, metrics[Head(keys)])
               ELSE acc)

SafeSumMetrics(metrics) == SumFrom(metrics, MetricKeys, Num(0))

\* _sanitize_metrics(metrics)
SanitizeMetrics(metrics) ==
  [k \in DOMAIN metrics |-> IF SafeJsonFloat(metrics[k]) THEN metrics[k] ELSE Null]

\* _clean_nan(v)
CleanNan(v) == IF v.kind \in {"nan", "inf"} THEN Null ELSE v

\* x or 0.0
OrZero(v) == IF v = Null \/ v = Num(0) THEN Num(0) ELSE v

\* _json_loads_safe(s): the parsed mapping (json.loads reads NaN and
\* Infinity as floats), {} for an empty or malformed text
JsonLoadsSafe(s) == IF s.ok THEN s.value ELSE NoMetrics

\* {**pub_metrics, **priv_metrics}
Merge(pub, priv) ==
  [k \in DOMAIN pub \cup DOMAIN priv |-> IF k \in DOMAIN priv THEN priv[k] ELSE pub[k]]

\* score and metrics of _prog_to_unified(prog)
ProgMetrics(prog) ==
  [id |-> prog.id,
   score |-> SafeSumMetrics(prog.metrics),
   metrics |-> SanitizeMetrics(prog.metrics)]

\* score and metrics of _row_to_unified(row)
RowMetrics(row) ==
  [id |-> row.id,
   score |-> OrZero(CleanNan(row.combined_score)),
   metrics |-> Merge(JsonLoadsSafe(row.public_metrics),
                     JsonLoadsSafe(row.private_metrics))]

\* Any operation that returns the stored record as an entity.
ToUnified ==
  /\ lastQuery = NoQuery
  /\ lastQuery' = [op |-> "to_unified",
                   out |-> IF reader = "openevolve"
                           THEN ProgMetrics(programs[1])
                           ELSE RowMetrics(programs[1])]
  /\ UNCHANGED <<storeVars, lineageVars, queryFrame>>

SanitizeNext ==
  \/ ToUnified

\* One stored record: a program file with any metrics mapping, or a table row
\* with any score column and any two metrics texts, malformed ones included.
SanitizeInit ==
  /\ StoreStart
  /\ reader \in StoreReaders
  /\ IF reader = "openevolve"
     THEN \E m \in MetricMaps({"ma", "mb"}) :
            programs = <<[id |-> "p1", metrics |-> m]>>
     ELSE \E pub \in MetricMaps({"ma", "mb"}), priv \in MetricMaps({"mb"}),
             okPub \in BOOLEAN, sc \in Numbers \cup {Null} :
            programs = <<[id |-> "p1", combined_score |-> sc,
                          public_metrics |-> [ok |-> okPub, value |-> pub],
                          private_metrics |-> [ok |-> TRUE, value |-> priv]]>>
  /\ bestId = "None"

SpecSanitize == SanitizeInit /\ [][SanitizeNext]_vars

\* ------------------------------------------------------ _load_checkpoint
\* The programs directory of a checkpoint, in os.listdir order.  A file is a
\* program object (with or without an "id" key), text that is not JSON,
\* bytes that do not decode, valid JSON that is not an object, a file that
\* cannot be opened, or a file without the .json suffix.
FileNames == <<"p1", "p2", "p3">>
FileKinds3 == {"program", "program_no_id", "invalid_json", "undecodable",
               "not_object", "unreadable", "other_suffix"}

WellFormed(file) == file.kind \in {"program", "program_no_id"}

\* json.load(f) and prog.get("id", ...) inside
\* try ... except (json.JSONDecodeError, IOError): the outcome for one file.
\* UnicodeDecodeError (from the read) and AttributeError (from .get on a
\* list, a number or a string) are neither of the two caught classes.
LoadFile(file) ==
  CASE file.kind = "other_suffix" -> "continue"
    [] file.kind \in {"program", "program_no_id"} -> "stored"
    [] file.kind \in {"invalid_json", "unreadable"} -> "skipped"
    [] file.kind \in {"undecodable", "not_object"} -> "raises"

\* for fname in os.listdir(programs_dir): ... programs[pid] = prog, where pid
\* is the object's "id" or, without one, the file name's stem; a program
\* file is named after its id, so both are the stem here.
RECURSIVE LoadPrograms(_, _)
LoadPrograms(files, loaded) ==
  IF files = <<>> THEN [raised |-> FALSE, programs |-> loaded]
  ELSE LET outcome == LoadFile(Head(files))
       IN  IF outcome = "raises"
           THEN [raised |-> TRUE, programs |-> {}]
           ELSE LoadPrograms(Tail(files),
                             IF outcome = "stored"
                             THEN loaded \cup {Head(files).fname}
                             ELSE loaded)

\* _load_checkpoint(cp) on the directory held in programs
LoadCheckpoint ==
  /\ lastQuery = NoQuery
  /\ lastQuery' = [op |-> "_load_checkpoint",
                   out |-> LoadPrograms(programs, {})]
  /\ UNCHANGED <<storeVars, lineageVars, queryFrame>>

LoadNext ==
  \/ LoadCheckpoint

\* Up to three files of any kind in any mix.
LoadInit ==
  /\ StoreStart
  /\ reader = "openevolve"
  /\ \E kind \in [1..3 -> FileKinds3], n \in 0..3 :
       programs = [i \in 1..n |-> [fname |-> FileNames[i], kind |-> kind[i]]]
  /\ bestId = "None"

SpecLoad == LoadInit /\ [][LoadNext]_vars

\* ------------------------------------------- _fire_event, thread by thread
\* _fire_event holds no lock: a thread reads the clock, reads the timer of
\* the key, tests, and writes the timer, and another thread may run between
\* any two of these.  All calls are for the key of experiment oe1.
fireThreadFrame ==
  <<callbacks, loopSet, running, observer, watchedPaths, experimentMeta,
    lastMtimes, hasWatchdog, scheduled, diskMtime, pollPc, pollTodo, mainPc,
    obsPc, obsEvent, iterations, polls, fireLog, lastAccept, stale,
    firedStale, pollBudget, startBudget, cacheVars, dbVars, regVars, mgrVars,
    queryVars>>

\* now = time.time()
FeEnter(t) ==
  /\ fePc[t] = "idle"
  /\ feCalls < MaxFireCalls
  /\ feCalls' = feCalls + 1
  /\ feNow' = [feNow EXCEPT ![t] = now]
  /\ fePc' = [fePc EXCEPT ![t] = "get"]
  /\ UNCHANGED <<feLast, delivered, debounceTimers, now, fireThreadFrame>>

\* last = self._debounce_timers.get(key, 0)
FeGet(t) ==
  /\ fePc[t] = "get"
  /\ feLast' = [feLast EXCEPT ![t] = debounceTimers[Key("oe1")]]
  /\ fePc' = [fePc EXCEPT ![t] = "test"]
  /\ UNCHANGED <<feNow, feCalls, delivered, debounceTimers, now,
                 fireThreadFrame>>

\* if now - last < FS_DEBOUNCE: return
\* self._debounce_timers[key] = now, then the callbacks are invoked
FeTest(t) ==
  /\ fePc[t] = "test"
  /\ IF Debounced(feNow[t], feLast[t])
     THEN UNCHANGED <<debounceTimers, delivered>>
     ELSE /\ debounceTimers' =
               [debounceTimers EXCEPT ![Key("oe1")] = feNow[t]]
          /\ delivered' = Append(delivered, feNow[t])
  /\ fePc' = [fePc EXCEPT ![t] = "idle"]
  /\ UNCHANGED <<feNow, feLast, feCalls, now, fireThreadFrame>>

\* the clock advances between the steps of the threads
FeTick(d) ==
  /\ now + d <= StartTime + MaxElapsed
  /\ now' = now + d
  /\ UNCHANGED <<fireThreadVars, debounceTimers, fireThreadFrame>>

FireThreadsNext ==
  \/ \E t \in FireThreads : FeEnter(t)
  \/ \E t \in FireThreads : FeGet(t)
  \/ \E t \in FireThreads : FeTest(t)
  \/ \E d \in {1, FS_DEBOUNCE - 1} : FeTick(d)

SpecFireThreads == FireInit /\ [][FireThreadsNext]_vars

\* ------------------------------------------------------------------ claims

\* C1 (as stated): every poll after the first fires exactly when the mtime it
\* observes is greater than the mtime observed at the previous poll, and
\* after every poll the stored last-seen mtime is the mtime just observed.
C1_FiresIffAbovePreviousPoll ==
  /\ \A i \in 2..Len(polls) : polls[i].fired <=> (polls[i].m > polls[i-1].m)
  /\ (polls # <<>> => lastMtimes["se1"] = polls[Len(polls)].m)

\* C2: the first poll of an experiment never fires, whatever it observes, and
\* polls that observe 100, 100, 150 fire exactly once, at the third poll.
C2_FirstPollSeedsBaseline ==
  /\ (Len(polls) >= 1 => ~polls[1].fired)
  /\ (/\ Len(polls) >= 3
      /\ polls[1].m = 100 /\ polls[2].m = 100 /\ polls[3].m = 150)
     => (~polls[1].fired /\ ~polls[2].fired /\ polls[3].fired)

C2_Witness ==
  /\ Len(polls) >= 3
  /\ polls[1].m = 100 /\ polls[2].m = 100 /\ polls[3].m = 150
  /\ polls[3].fired

\* C3: an event handed to _fire_event is delivered iff no event of its key
\* was accepted before or the last accepted one is at least FS_DEBOUNCE old;
\* suppressed events and events of other keys do not count.
C3_DebounceWindow ==
  fireLog.key # "none" =>
    (fireLog.accepted <=> (fireLog.gap < 0 \/ fireLog.gap >= FS_DEBOUNCE))

\* Two events of one key 0.1 s apart: the second one is suppressed.
C3_Witness ==
  fireLog.key # "none" /\ ~fireLog.accepted /\ fireLog.gap = 1

\* C4 (as stated): every accepted event reaches every registered callback,
\* synchronous or asynchronous, with or without set_loop.
C4_EveryCallbackInvoked ==
  fireLog.accepted => fireLog.missed = {}

\* C10: stop() returns from joining the observer, a stopped engine's poll
\* threads terminate unless the engine is started again, and no poll fires
\* an event after the iteration that was running when stop() was called.
C10_StopTerminates ==
  /\ (mainPc = "joining") ~> (mainPc = "idle")
  /\ (~running) ~>
       (running \/ \A t \in PollThreads : pollPc[t] \in {"unstarted", "done"})
  /\ [](~firedStale)

\* stop() was called while a poll iteration and a handler were in progress.
C10_Witness ==
  /\ ~running
  /\ mainPc = "joining"
  /\ obsPc = "dispatch"
  /\ \E t \in PollThreads : pollPc[t] = "iter" /\ pollTodo[t] # <<>>

\* The outcome of an operation as its caller sees it.
Result(rd) ==
  IF rd.out = "raised" THEN <<rd.op, "raised">>
  ELSE <<rd.op, Content(rd.use.meta), Content(rd.use.progs),
         Content(rd.use.trace), rd.status, rd.lastMod>>

\* C5 (as stated): of two successive reads, the second returns the same result
\* without calling _load_checkpoint when the latest checkpoint's metadata
\* mtime did not change between them, and returns the content on disk when
\* the mtime changed.
C5_CacheStableAndFresh ==
  (prevRead.op # "none" /\ lastRead.op = prevRead.op) =>
    IF lastRead.use.changed
    THEN /\ lastRead.out = "returned"
         /\ Content(lastRead.use.progs) = lastRead.disk
    ELSE /\ Result(lastRead) = Result(prevRead)
         /\ ~lastRead.use.parsed

\* C6 (as stated): the mtime marker, the metadata, the program map and the
\* trace list one operation uses all come from one load.
C6_OneLoadPerOperation ==
  LET u == lastRead.use
  IN lastRead.out = "returned" =>
       /\ u.meta.load = u.marker
       /\ u.progs.load = u.marker
       /\ (u.trace # Unused => u.trace.load = u.marker)

\* The delays _db_retry sleeps before attempts 2, 3, ...: 0.1 s, doubling.
Backoff(n) == [i \in 1..n |-> InitialDelay * 2^(i - 1)]

\* C7 (as stated): a capability method is attempted at most 5 times, with
\* sleeps of 0.1, 0.2, 0.4, 0.8 s between the attempts; it raises only after
\* the 5th failed attempt; and every transient storage error of every
\* statement, the archive lookup included, fails its attempt, so that a call
\* that returns met one error per attempt before the returning one.
C7_RetriesEveryTransientError ==
  lastCall.method # "none" =>
    /\ lastCall.attempts <= max_retries
    /\ lastCall.slept = Backoff(lastCall.attempts - 1)
    /\ (lastCall.out = "raised" => lastCall.attempts = max_retries)
    /\ lastCall.errors =
         lastCall.attempts - (IF lastCall.out = "returned" THEN 1 ELSE 0)

\* C8 (as stated): when a capability method returns or raises, no connection
\* opened during the call is still open.
C8_NoConnectionAtBoundary ==
  lastCall.method # "none" => lastCall.open = 0

\* C9 (as stated): get_experiment_info of either reader never raises, and for
\* a store that does not exist it returns status UNKNOWN, last_modified 0 and
\* no programs.
C9_InfoNeverRaises ==
  /\ lastCall.method = "get_experiment_info" =>
       /\ lastCall.out = "returned"
       /\ ~lastCall.exists =>
            (lastCall.status = "UNKNOWN" /\ lastCall.lastMod = 0)
  /\ lastRead.op = "get_experiment_info" =>
       /\ lastRead.out = "returned"
       /\ lastRead.disk = 0 =>
            /\ lastRead.status = "UNKNOWN"
            /\ lastRead.lastMod = 0
            /\ Content(lastRead.use.progs) = 0

\* C11: two runs of discover_experiments() over the same tree and registry
\* return the same list, and no two entries of one result have the same real
\* path, whichever descriptors and patterns produced them.
C11_DiscoverDeduplicates ==
  /\ \A i, j \in 1..Len(discovered) : discovered[i] = discovered[j]
  /\ \A k \in 1..Len(discovered) :
       \A a, b \in 1..Len(discovered[k].list) :
         a # b => RealPath(discovered[k].list[a].path)
                    # RealPath(discovered[k].list[b].path)

\* Two runs over a registry whose descriptors reach e1 through two
\* checkpoints and through the link e2, and e3 as well.
C11_Witness ==
  /\ Len(discovered) = 2
  /\ Len(discovered[2].list) = 2
  /\ \E i \in 1..Len(configs) :
       configs[i].resolver = "root" /\ configs[i].detect = "all"

\* C12: a detect predicate or a resolver that raises never makes
\* detect_framework() or discover_experiments() raise: detect_framework()
\* returns the first descriptor that accepts the path (None when none does),
\* and discover_experiments() lists exactly the real paths some descriptor
\* resolves and accepts, as if the raising pair had been rejected.
Accepting(path) ==
  {i \in 1..Len(configs) : Predicate(configs[i].detect, path) = "yes"}

Reached(cfg) ==
  UNION {{IF cfg.resolver = "none" THEN Glob(cfg.glob_patterns[k])[n]
          ELSE Resolver(cfg.resolver, Glob(cfg.glob_patterns[k])[n]) :
            n \in 1..Len(Glob(cfg.glob_patterns[k]))} :
         k \in 1..Len(cfg.glob_patterns)} \ {"raise"}

Accepted(cfg) ==
  {p \in Reached(cfg) : Predicate(cfg.detect, p) = "yes"}

C12_RaisingPairIsSkipped ==
  /\ lastDetect.out # "raised"
  /\ lastDetect.path # "none" =>
       IF Accepting(lastDetect.path) = {}
       THEN lastDetect.out = "None"
       ELSE \E i \in Accepting(lastDetect.path) :
              /\ lastDetect.out = configs[i].name
              /\ \A j \in Accepting(lastDetect.path) : i <= j
  /\ \A k \in 1..Len(discovered) :
       /\ discovered[k].ok
       /\ \A a \in 1..Len(discovered[k].list) :
            \E i \in 1..Len(configs) :
              /\ configs[i].name = discovered[k].list[a].name
              /\ discovered[k].list[a].path \in Accepted(configs[i])
       /\ \A i \in 1..Len(configs) : \A p \in Accepted(configs[i]) :
            \E a \in 1..Len(discovered[k].list) :
              RealPath(discovered[k].list[a].path) = RealPath(p)

\* A run in which a predicate raised on m1 or e1 and a resolver raised on
\* m2, and the other pairs were still listed.
C12_Witness ==
  /\ Len(discovered) >= 1
  /\ Len(discovered[1].list) >= 1
  /\ \E i \in 1..Len(configs) : configs[i].detect = "raises"
  /\ \E i \in 1..Len(configs) : configs[i].resolver = "raising"

\* The register() call that stored the descriptor now held under a name, and
\* the first register() call made with that name.
LastAt(name) ==
  CHOOSE k \in 1..Len(regLog) :
    regLog[k] = name /\ \A l \in 1..Len(regLog) : regLog[l] = name => l <= k

FirstAt(name) ==
  CHOOSE k \in 1..Len(regLog) :
    regLog[k] = name /\ \A l \in 1..Len(regLog) : regLog[l] = name => k <= l

\* C13 as stated: detect_framework(path) returns the name of the descriptor
\* registered earliest among those whose predicate accepts the path, and
\* None when no registered predicate accepts it.
C13_EarliestRegisteredDescriptor ==
  lastDetect.path # "none" =>
    IF Accepting(lastDetect.path) = {}
    THEN lastDetect.out = "None"
    ELSE \E i \in Accepting(lastDetect.path) :
           /\ lastDetect.out = configs[i].name
           /\ \A j \in Accepting(lastDetect.path) :
                LastAt(configs[i].name) <= LastAt(configs[j].name)

\* C13 amended: detect_framework(path) returns, among the descriptors whose
\* predicate accepts the path, the one whose name was registered first (a
\* register() call with a name already held replaces the descriptor and
\* keeps the name's place), and None when no registered predicate accepts it.
C13_EarliestRegisteredName ==
  lastDetect.path # "none" =>
    IF Accepting(lastDetect.path) = {}
    THEN lastDetect.out = "None"
    ELSE \E i \in Accepting(lastDetect.path) :
           /\ lastDetect.out = configs[i].name
           /\ \A j \in Accepting(lastDetect.path) :
                FirstAt(configs[i].name) <= FirstAt(configs[j].name)

\* A name registered, a second name registered, the first name registered
\* again; both descriptors accept the path and the first name is returned.
C13_Witness ==
  /\ Len(regLog) = 3
  /\ regLog[1] = regLog[3]
  /\ regLog[1] # regLog[2]
  /\ lastDetect.path # "none"
  /\ Accepting(lastDetect.path) = {1, 2}
  /\ lastDetect.out = regLog[1]

\* The roots of the last scan whose reader answered and whose id is i, and
\* the one of them the scan met last.
Loaded(i) == {k \in 1..Len(ScanOrder) :
                /\ MakeId(ScanOrder[k]) = i
                /\ lastScan.found[ScanOrder[k]] = "ok"}

LastLoaded(i) == ScanOrder[CHOOSE k \in Loaded(i) : \A l \in Loaded(i) : l <= k]

\* C14: a reader whose get_experiment_info() raises during scan() does not
\* make scan() raise and is not registered by it, and every other root the
\* scan found is registered and then listed.
C14_ScanSurvivesFailure ==
  lastScan.called =>
    /\ ~lastScan.raised
    /\ \A i \in Ids :
         adapters[i] = IF Loaded(i) = {} THEN lastScan.before[i]
                       ELSE LastLoaded(i)
    /\ lastList.called =>
         \A i \in Ids : adapters[i] # "none" =>
           \E item \in lastList.items : item.id = i

\* A scan whose first root failed and whose second root loaded, listed.
C14_Witness ==
  /\ lastScan.called
  /\ lastScan.found["x3"] = "raises"
  /\ lastScan.found["x1"] = "ok"
  /\ lastScan.before["oe_run"] = "none"
  /\ adapters["oe_run"] = "x1"
  /\ adapters["se_db"] = "none"
  /\ lastList.called

\* C15: the strategy of a registered experiment is the one its framework's
\* descriptor declares, 'poll' for a framework name that is not registered,
\* and the poll loop handles an experiment iff that strategy is 'poll': each
\* step of the loop over the registered experiments polls the one it takes
\* exactly when its strategy is 'poll'.
C15_PolledIffStrategyPoll ==
  [][\A t \in PollThreads :
       (/\ pollPc[t] = "iter"
        /\ pollTodo[t] # <<>>
        /\ pollTodo'[t] = Tail(pollTodo[t]))
       => ((DeclaredStrategy(Framework(Head(pollTodo[t]))) = "poll")
             <=> (polls' # polls))]_vars

\* The programs of the snapshot as the reader returns them, and whether one
\* satisfies every filter of a query.
Snapshot ==
  [i \in 1..Len(programs) |->
     IF reader = "openevolve" THEN ProgToUnified(programs[i])
     ELSE RowToUnified(programs[i])]

Satisfies(p, q) ==
  /\ ColumnFilters(p, q)
  /\ q.archive_only => p.in_archive
  /\ q.correct_only => p.correct

\* C16: get_programs returns as total the number of programs of the snapshot
\* that satisfy all the filters, and as page the slice
\* [(page-1)*page_size, page*page_size) of those programs in sorted order.
C16_FilterThenPaginate ==
  lastQuery.op = "get_programs" =>
    LET q == lastQuery.q
        expected == SortedBy(SelectSeq(Snapshot, LAMBDA p : Satisfies(p, q)), q)
    IN  /\ lastQuery.out.total = Len(expected)
        /\ IdsOf(lastQuery.out.page) =
             IdsOf(Slice(expected, (q.page - 1) * q.page_size, q.page_size))

\* The programs the last call returned.
Returned ==
  IF lastQuery.op = "get_programs" THEN lastQuery.out.page
  ELSE IF lastQuery.op \in {"get_program", "search_code"} THEN lastQuery.out
  ELSE <<>>

\* C17: every program returned by get_programs, get_program or search_code
\* carries as children_count the number of programs of the store whose
\* parent_id is its id.
C17_ChildrenCountRecomputed ==
  \A i \in 1..Len(Returned) :
    Returned[i].children_count = ParentCount(Returned[i].id)

\* The programs whose parent is absent or not in the store.
RootSet ==
  {id \in NodeIds :
     ProgramOf(id).parent_id = "None" \/ ProgramOf(id).parent_id \notin NodeIds}

Occurrences(seq, x) == Cardinality({i \in 1..Len(seq) : seq[i] = x})

\* C18: the tree get_lineage() returns without a root argument has as root_ids
\* exactly the programs whose parent is absent or not in the set, and every
\* other program is in the children list of its parent, once, and in no
\* other children list.
C18_RootsAndChildren ==
  (lastQuery.op = "get_lineage" /\ lastQuery.q = "None") =>
    /\ {lastQuery.out.root_ids[i] : i \in 1..Len(lastQuery.out.root_ids)}
         = RootSet
    /\ Len(lastQuery.out.root_ids) = Cardinality(RootSet)
    /\ \A id \in NodeIds \ RootSet : \A n \in NodeIds :
         Occurrences(lastQuery.out.children[n], id)
           = IF n = ProgramOf(id).parent_id THEN 1 ELSE 0
    /\ \A id \in RootSet : \A n \in NodeIds :
         Occurrences(lastQuery.out.children[n], id) = 0

\* A returned tree with a root, a child of it, and a program whose parent is
\* not in the store.
C18_Witness ==
  /\ lastQuery.op = "get_lineage"
  /\ lastQuery.q = "None"
  /\ Len(programs) = 3
  /\ \E id \in RootSet : ProgramOf(id).parent_id = "px"
  /\ \E id \in RootSet : ProgramOf(id).parent_id = "None"
  /\ \E id \in NodeIds \ RootSet : ProgramOf(id).parent_id \in RootSet

\* C19: best_path is empty when the recorded best program id is not a program
\* of the store; otherwise it is the ancestor chain of the best program,
\* oldest first: it ends with the best id, begins with a program of the root
\* set, and each element is the parent of the one that follows it.
C19_BestPathOldestFirst ==
  lastQuery.op = "get_lineage" =>
    LET path == lastQuery.out.best_path
    IN  IF lastQuery.best \notin NodeIds
        THEN path = <<>>
        ELSE /\ path # <<>>
             /\ path[Len(path)] = lastQuery.best
             /\ path[1] \in RootSet
             /\ \A i \in 1..(Len(path) - 1) :
                  ProgramOf(path[i + 1]).parent_id = path[i]

\* A returned tree whose best program has a parent and a grandparent.
C19_Witness ==
  /\ lastQuery.op = "get_lineage"
  /\ Len(lastQuery.out.best_path) = 3
  /\ lastQuery.out.best_path[3] = lastQuery.best

\* C20: the best_score_history of get_metrics is in strictly ascending
\* generation order and its values never decrease along it.
C20_BestHistoryMonotone ==
  lastQuery.op = "get_metrics" =>
    LET h == lastQuery.out.best_score_history
    IN  \A i \in 1..(Len(h) - 1) :
          /\ h[i].generation < h[i + 1].generation
          /\ h[i].value <= h[i + 1].value

\* A history of three generations, stored out of order, in which the best
\* program of a later generation scores less than that of an earlier one.
C20_Witness ==
  /\ lastQuery.op = "get_metrics"
  /\ Len(lastQuery.out.best_score_history) = 3
  /\ programs[1].generation > programs[2].generation
  /\ \E i, j \in 1..3 :
       /\ programs[i].generation < programs[j].generation
       /\ programs[i].score > programs[j].score
       /\ programs[i].score > 0
\* The greatest of a non-empty set of scores.
MaxOf(S) == CHOOSE m \in S : \A x \in S : x <= m

\* The scores of the stored programs of one island (any island when isl is
\* -2) whose generation is at most g.
ScoresUpTo(isl, g) ==
  {programs[i].score : i \in {k \in 1..Len(programs) :
      /\ isl # -2 => programs[k].island_id = isl
      /\ programs[k].generation <= g}}

\* C21: every island's series in per_island_best never decreases in ascending
\* generation order, and its value at generation g is the greatest score
\* among that island's programs of generation at most g.
C21_PerIslandRunningMax ==
  lastQuery.op = "get_metrics" =>
    \A e \in lastQuery.out.per_island_best :
      /\ \A i \in 1..(Len(e.points) - 1) :
            e.points[i].value <= e.points[i + 1].value
      /\ \A i \in 1..Len(e.points) :
            e.points[i].value = MaxOf(ScoresUpTo(e.island, e.points[i].generation))
\* C22: whatever the store holds, the returned entity carries no non-finite
\* number: its score is a finite number and none of its metrics values is
\* NaN or an infinity.
C22_NoNonFiniteNumber ==
  lastQuery.op = "to_unified" =>
    /\ lastQuery.out.score.kind = "num"
    /\ \A k \in DOMAIN lastQuery.out.metrics :
         lastQuery.out.metrics[k].kind \notin {"nan", "inf"}
\* C23: loading a programs directory that holds corrupt or malformed files
\* next to well-formed ones succeeds, and the loaded programs are exactly
\* the well-formed files, as many as there are.
C23_CorruptFilesSkipped ==
  lastQuery.op = "_load_checkpoint" =>
    LET good == {programs[i].fname :
                   i \in {k \in 1..Len(programs) : WellFormed(programs[k])}}
    IN  /\ ~lastQuery.out.raised
        /\ lastQuery.out.programs = good
        /\ Cardinality(lastQuery.out.programs) = Cardinality(good)
\* C24: in whatever order register_experiment and start() were called, once
\* the engine runs with its observer started, a registered experiment of the
\* watch strategy has had its directory handed to the observer, so that a
\* later file change in it is dispatched.
C24_WatchedOnceRunning ==
  (/\ hasWatchdog
   /\ running
   /\ observer = "started"
   /\ Registered("oe1"))
  => "oe1" \in watchedPaths
\* C25: best_score_history has exactly one point per distinct generation of
\* the stored programs, and its value at generation g is the greatest score
\* among the programs of generation at most g, negative scores included.
C25_BestHistoryTrueMaximum ==
  lastQuery.op = "get_metrics" =>
    LET h == lastQuery.out.best_score_history
        gens == {programs[i].generation : i \in 1..Len(programs)}
    IN  /\ Len(h) = Cardinality(gens)
        /\ {h[i].generation : i \in 1..Len(h)} = gens
        /\ \A i \in 1..Len(h) :
             h[i].value = MaxOf(ScoresUpTo(-2, h[i].generation))
\* C26: of any two events of one key that arrive less than FS_DEBOUNCE apart,
\* at most one is delivered, however the concurrent _fire_event calls
\* interleave.
C26_DebounceAtomic ==
  \A i, j \in 1..Len(delivered) :
    i < j => \/ delivered[j] - delivered[i] >= FS_DEBOUNCE
             \/ delivered[i] - delivered[j] >= FS_DEBOUNCE
\* A poll thread that is inside its loop and will iterate again: it is in the
\* body or asleep, or at the while test with the running flag set.
Iterating(t) ==
  \/ pollPc[t] \in {"iter", "sleep"}
  \/ pollPc[t] = "check" /\ running

\* C27: after any sequence of start() and stop() calls at most one poll-loop
\* thread is alive and iterating.
C27_OnePollLoop ==
  Cardinality({t \in PollThreads : Iterating(t)}) <= 1
\* C28: a read returns the programs of the checkpoint folder that is the
\* latest one on disk when it is made: the cache was loaded from that folder
\* and is not the empty state left by a moment without any checkpoint; this
\* also when the metadata mtime of the folder equals the cached marker.
C28_ReadsLatestCheckpoint ==
  (lastRead.out = "returned" /\ lastRead.latest # "none") =>
    /\ lastRead.dir = lastRead.latest
    /\ Content(lastRead.use.progs) # 0
\* C29: get_lineage terminates for every program set, cyclic parent pointers
\* included: neither of its two loops visits a program twice, so neither
\* makes more iterations than there are programs (a loop that does has come
\* back to a program it has left and repeats from there without end).
C29_LineageTerminates ==
  lnPc \in {"walk", "subtree"} => lnSteps <= Len(programs)
\* C30: after a scan every discovered root whose reader loaded is registered
\* under an id of its own, so that the id leads to the reader of that root,
\* and an id that led to a root before the scan still leads to the same root
\* after it.
C30_DistinctRootsDistinctIds ==
  (lastScan.called /\ ~lastScan.raised) =>
    /\ \A x \in Roots :
         lastScan.found[x] = "ok" => adapters[MakeId(x)] = x
    /\ \A i \in Ids :
         lastScan.before[i] # "none" => adapters[i] = lastScan.before[i]

=============================================================================
